---- MODULE Spec2Model ----
(***************************************************************************)
(* Component framework of the CodeNexlify site: BaseComponent lifecycle    *)
(* (init / mount / destroy), parent/child destruction, ThemeManager,       *)
(* I18nManager, the application objects, NavigationManager, EventBus and   *)
(* ComponentRegistry.                                                      *)
(*                                                                         *)
(* The specifications that share the module:                               *)
(*   Spec             one BaseComponent, its async lifecycle calls, hooks  *)
(*   SpecTree         components linked with addChild, and destroy()       *)
(*   SpecTheme        one ThemeManager with document, storage and events   *)
(*   SpecThemeConfig  the theme list of a ThemeManager                     *)
(*   SpecThemeDestroy a ThemeManager that is used and destroyed            *)
(*   SpecI18n         one I18nManager and its language changes             *)
(*   SpecApp          CodeNexlifyApp.init and the components it starts     *)
(*   SpecStorage      the localStorage keys of App and the managers        *)
(*   SpecNav          one NavigationManager and the window events          *)
(*   SpecBus          the EventBus: on, once, off, use, emit, emitAsync    *)
(*   SpecBusEmit      the EventBus with synchronous emit only              *)
(*   SpecBusOwners    components registering listeners and destroyed       *)
(*   SpecRegistry     the ComponentRegistry and initializeAll              *)
(*   SpecRegistryCalls  register, unregister and getInstance only        *)
(*   SpecDependencies validateDependencies on the instances' dependencies  *)
(*                                                                         *)
(* An async method is a call with a stack of frames.  It is suspended only *)
(* where it awaits overridable asynchronous work (onInit, onMount); the    *)
(* code between two such awaits runs as one step.                          *)
(***************************************************************************)
EXTENDS Integers, Sequences, FiniteSets, TLC

\* ------------------------------------------------------------------ bounds
MaxTasks == 2       \* calls pending at the same time
MaxHooks == 2       \* hooks registered on the component
MaxDepth == 3       \* frames on one call's stack
NComp == 2          \* components that addChild can link
MaxTreeDepth == 4   \* nested destroy() calls that are followed; more than NComp
MaxListeners == 2   \* listeners of one kind that a ThemeManager registers

\* I18nManager: init() calls made, and asynchronous calls pending at a time
MaxInits == 2

MaxCalls == 2

\* CodeNexlifyApp: init() calls made
MaxStarts == 1

\* EventBus: listeners ever registered, emit calls nested inside listeners, and
\* emitAsync calls whose promise is pending
MaxIds == 2

MaxBusDepth == 2

MaxPending == 1

\* ComponentRegistry: component names in use, and changes made to the components
\* map while one initializeAll call is pending
MaxNames == 2

MaxChanges == 1

VARIABLES
  component,   \* the BaseComponent object: state, config, container, hooks ...
  tasks,       \* pending async calls, each with its stack of frames
  initDone,    \* some init() call has resolved
  ev,          \* outcome of the last step
  children,    \* per component, its children map in insertion order
  parent,      \* per component, its parent reference (0: none)
  destroyed,   \* per component, state.destroyed
  dstack,      \* the destroy() calls in progress, innermost last
  tev,         \* outcome of the last step on the tree
  tm,          \* the ThemeManager object: state, config, references, listeners, timers
  doc,         \* the document: data-theme, body classes, toggle buttons, style sheets
  storage,     \* localStorage['codenexlify-theme']
  i18n,        \* the I18nManager object and its world: storage, fetches, pending calls
  iev,         \* outcome of the last step on the I18nManager
  capp,        \* the CodeNexlifyApp object and the progress of its init()
  core,        \* the App object: state, bus listeners, and the storage keys it uses
  nav,         \* the NavigationManager object, the navigation elements and the window
  bus,         \* the EventBus object, the emit calls in progress and the components using it
  bev,         \* outcome of the last step on the EventBus
  registry,    \* the ComponentRegistry object: its components and instances maps
  run,         \* the initializeAll() call in progress or just returned
  deps,        \* a ComponentRegistry whose instances carry dependencies arrays
  issues,      \* what the last validateDependencies() call returned
  env,         \* the browser: matchMedia support, storage access, OS colour scheme
  tmInited,    \* some init() call of the ThemeManager has resolved
  tmev         \* outcome of the last step on the ThemeManager

bcVars == <<component, tasks, initDone, ev>>

treeVars == <<children, parent, destroyed, dstack, tev>>

\* variables of the other specifications, left alone by the lifecycle steps
themeVars == <<tm, doc, storage, env, tmInited, tmev>>

i18nVars == <<i18n, iev>>

appVars == <<capp, core>>

navVars == <<nav>>

busVars == <<bus, bev>>

regVars == <<registry, run>>

depVars == <<deps, issues>>

othersBC == <<treeVars, themeVars, i18nVars, appVars, navVars, busVars, regVars, depVars>>

othersTree == <<bcVars, themeVars, i18nVars, appVars, navVars, busVars, regVars, depVars>>

othersTheme == <<bcVars, treeVars, i18nVars, appVars, navVars, busVars, regVars, depVars>>

othersI18n == <<bcVars, treeVars, themeVars, appVars, navVars, busVars, regVars, depVars>>

othersApp == <<bcVars, treeVars, themeVars, i18nVars, navVars, busVars, regVars, depVars>>

othersNav == <<bcVars, treeVars, themeVars, i18nVars, appVars, busVars, regVars, depVars>>

othersBus == <<bcVars, treeVars, themeVars, i18nVars, appVars, navVars, regVars, depVars>>

othersReg == <<bcVars, treeVars, themeVars, i18nVars, appVars, navVars, busVars, depVars>>

othersDep == <<bcVars, treeVars, themeVars, i18nVars, appVars, navVars, busVars, regVars>>

vars == <<bcVars, treeVars, themeVars, i18nVars, appVars, navVars, busVars, regVars, depVars>>

\* ------------------------------------------------------------ BaseComponent
Errors == {"E_init", "E_mount", "E_nocontainer"}

HookPhases == {"beforeInit", "afterInit"}

EventNames == {"state:changed", "component:error", "component:initialized",
               "component:mounted", "component:destroyed"}

DefaultConfig == [autoMount |-> TRUE, enableEvents |-> TRUE, enableStateTracking |-> TRUE]

\* new BaseComponent(options), options.dependencies left empty;
\* performance.initTime is 0 until init() measures it; attached: the element
\* (created by every mount() before onMount) is a child of the container
NewComponent(cfg, hasContainer) ==
  [ state       |-> [initialized |-> FALSE, mounted |-> FALSE, destroyed |-> FALSE,
                     error |-> "null"],
    config      |-> cfg,
    container   |-> hasContainer,
    attached    |-> FALSE,
    hooks       |-> [p \in HookPhases |-> 0],
    performance |-> [initTime |-> 0] ]

NoEmits == [n \in EventNames |-> 0]

\* what a step did: the call it belongs to, its outcome, and what it ran and emitted
NoEv ==
  [ op |-> "none", outcome |-> "none", err |-> "null", further |-> FALSE,
    wroteInitTime |-> FALSE, ranSteps |-> FALSE, hookThrew |-> FALSE, hookLogs |-> <<>>, onInitOk |-> "none",
    emits |-> NoEmits, setupCalls |-> 0, onInitCalls |-> 0, onMountCalls |-> 0,
    pre |-> [initialized |-> FALSE, isMounted |-> FALSE, attached |-> FALSE] ]

\* a machine: the component, one call's stack, the hooks that throw when they are
\* run in this step (per phase, their positions) and what the step has done so far
Machine(c, stk, thr) ==
  [ c |-> c, bus |-> NoEmits, stk |-> stk, thr |-> thr, res |-> "pending", err |-> "null",
    hookLogs |-> <<>>, hookThrew |-> FALSE, ranSteps |-> FALSE, initOk |-> FALSE,
    setupCalls |-> 0, onInitCalls |-> 0, onMountCalls |-> 0, wroteInitTime |-> FALSE ]

Top(s) == s[Len(s)]

Pop(m) == [m EXCEPT !.stk = SubSeq(@, 1, Len(@) - 1)]

Push(m, f) == [m EXCEPT !.stk = Append(@, f)]

SetPc(m, pc) == [m EXCEPT !.stk[Len(m.stk)].pc = pc]

\* EventBus.emit as seen from the component: never throws
Emit(m, name) == [m EXCEPT !.bus[name] = @ + 1]

\* BaseComponent.setState
SetState(m, changes) ==
  IF ~m.c.config.enableStateTracking
    THEN m
    ELSE Emit([m EXCEPT !.c.state = changes @@ @], "state:changed")

\* BaseComponent.runHooks: the positions of the n hooks of a phase that are run,
\* in order, when those in thr throw: the error is caught and logged
HooksRun(n, thr) == [i \in 1..n |-> i]

RunHooks(m, phase) ==
  LET n   == m.c.hooks[phase]
      ran == HooksRun(n, m.thr[phase])
  IN [m EXCEPT !.hookLogs = Append(@, [phase |-> phase, ran |-> ran, total |-> n]),
               !.hookThrew = @ \/ (\E i \in 1..Len(ran) : ran[i] \in m.thr[phase])]

\* the catch block of init() and mount()
Catch(m, e) == Emit(SetState(m, [error |-> e]), "component:error")

RECURSIVE Return(_, _), MountBody(_)

\* mount(): the try block up to the call of onMount; the container parameter
\* is not read again after it
MountBody(m) ==
  LET f  == Top(m.stk)
      m1 == IF f.arg THEN [m EXCEPT !.c.container = TRUE] ELSE m
  IN IF ~m1.c.container
       THEN Return(Pop(Catch(m1, "E_nocontainer")), "E_nocontainer")
       ELSE [SetPc(m1, "onMount") EXCEPT !.stk[Len(m1.stk)].arg = FALSE,
                                          !.onMountCalls = @ + 1]

\* the awaited call of the frame on top of the stack has settled with r
Return(m, r) ==
  IF m.stk = <<>>
    THEN [m EXCEPT !.res = IF r = "ok" THEN "resolved" ELSE "rejected", !.err = r]
    ELSE LET f == Top(m.stk) IN
         IF f.fn = "init"
           THEN IF r = "ok"
                  THEN Return(Pop(Emit([m EXCEPT !.initOk = TRUE], "component:initialized")), "ok")
                  ELSE Return(Pop(Catch(m, r)), r)
           ELSE IF r = "ok" THEN MountBody(m) ELSE Return(Pop(m), r)

\* init(): from the call to the call of onInit
EnterInit(m) ==
  IF m.c.state.initialized
    THEN Return([m EXCEPT !.initOk = TRUE], "ok")
    ELSE LET m1 == [RunHooks(m, "beforeInit") EXCEPT !.ranSteps = TRUE] IN
         [Push(m1, [fn |-> "init", pc |-> "onInit", arg |-> FALSE])
            EXCEPT !.onInitCalls = @ + 1]

\* mount(container): from the call to the first await
EnterMount(m, arg) ==
  IF m.c.state.mounted
    THEN Return(m, "ok")
    ELSE IF ~m.c.state.initialized
           THEN EnterInit(Push(m, [fn |-> "mount", pc |-> "awaitInit", arg |-> arg]))
           ELSE MountBody(Push(m, [fn |-> "mount", pc |-> "body", arg |-> arg]))

\* init(): onInit has settled
ResumeOnInit(m, ok) ==
  IF ~ok
    THEN Return(Pop(Catch(m, "E_init")), "E_init")
    ELSE LET m1 == IF m.c.config.enableEvents
                     THEN [m EXCEPT !.setupCalls = @ + 1] ELSE m
             m2 == SetState(m1, [initialized |-> TRUE])
             m3 == [m2 EXCEPT !.c.performance.initTime = 1, !.wroteInitTime = TRUE]
             m4 == RunHooks(m3, "afterInit")
         IN IF m4.c.config.autoMount /\ m4.c.container
              THEN EnterMount(SetPc(m4, "awaitMount"), FALSE)
              ELSE Return(Pop(Emit([m4 EXCEPT !.initOk = TRUE], "component:initialized")), "ok")

\* mount(): onMount has settled
ResumeOnMount(m, ok) ==
  IF ~ok
    THEN Return(Pop(Catch(m, "E_mount")), "E_mount")
    ELSE LET m1 == [m EXCEPT !.c.attached = TRUE]
             m2 == SetState(m1, [mounted |-> TRUE])
         IN Return(Pop(Emit(m2, "component:mounted")), "ok")

\* destroy() that leaves the element in its container
DestroyBody_KeepsElement(m) ==
  IF m.c.state.destroyed
    THEN m
    ELSE Emit(SetState(m, [destroyed |-> TRUE, mounted |-> FALSE, initialized |-> FALSE]),
              "component:destroyed")

\* destroy() of a component without children
DestroyBody(m) ==
  IF m.c.state.destroyed
    THEN m
    ELSE LET m1 == [m EXCEPT !.c.attached = FALSE]
             m2 == SetState(m1, [destroyed |-> TRUE, mounted |-> FALSE, initialized |-> FALSE])
         IN Emit(m2, "component:destroyed")

isReady(c) == c.state.initialized /\ ~c.state.destroyed /\ c.state.error = "null"

isMounted(c) == c.state.mounted /\ ~c.state.destroyed

\* ------------------------------------------------- lifecycle steps (Spec)
\* options.config; enableEvents only decides whether init() calls the empty
\* BaseComponent.setupEventListeners, and is varied for the ThemeManager instead
Configs == [autoMount : BOOLEAN, enableEvents : {TRUE}, enableStateTracking : BOOLEAN]

InitBC ==
  /\ component \in {NewComponent(cfg, hc) : cfg \in Configs, hc \in BOOLEAN}
  /\ tasks = <<>>
  /\ initDone = FALSE
  /\ ev = NoEv

IdleBC ==
  /\ component = NewComponent(DefaultConfig, FALSE)
  /\ tasks = <<>>
  /\ initDone = FALSE
  /\ ev = NoEv

RemoveAt(s, i) == SubSeq(s, 1, i - 1) \o SubSeq(s, i + 1, Len(s))

HasInitFrame(stk) == \E k \in 1..Len(stk) : stk[k].fn = "init"

\* an init() call is pending, on its own or inside a mount()
InitPending == \E i \in 1..Len(tasks) : HasInitFrame(tasks[i].stack)

\* what the component was like when destroy() was called
Pre ==
  [ initialized |-> component.state.initialized, isMounted |-> isMounted(component),
    attached |-> component.attached ]

\* the hooks that throw in a step: none, or the first one of a phase the step runs
Throwing(phases) ==
  {thr \in [HookPhases -> {{}, {1}}] :
     \A p \in HookPhases : thr[p] \subseteq (IF p \in phases THEN 1..component.hooks[p] ELSE {})}

\* pending calls are kept in a fixed order: the order carries no meaning
FrameCode(f) ==
  (IF f.fn = "init" THEN 0 ELSE 4) + (IF f.pc \in {"onInit", "onMount"} THEN 0 ELSE 2)
    + (IF f.arg THEN 1 ELSE 0)

RECURSIVE StackCode(_)
StackCode(stk) == IF stk = <<>> THEN 1 ELSE FrameCode(stk[1]) + 8 * StackCode(Tail(stk))

TaskCode(t) == StackCode(t.stack)

Insert(ts, t) ==
  LET k == Cardinality({j \in 1..Len(ts) : TaskCode(ts[j]) <= TaskCode(t)})
  IN SubSeq(ts, 1, k) \o <<t>> \o SubSeq(ts, k + 1, Len(ts))

NoThrow == [p \in HookPhases |-> {}]

\* store the machine after a step of the call t (i = 0: a new call)
Settle(m, t, i, op, onInitOk) ==
  /\ Len(m.stk) <= MaxDepth
  /\ component' = m.c
  /\ initDone' = (initDone \/ m.initOk)
  /\ LET t1 == [t EXCEPT !.stack = m.stk, !.onMounts = @ + m.onMountCalls]
         rest == IF i = 0 THEN tasks ELSE RemoveAt(tasks, i) IN
     /\ tasks' = IF m.res = "pending" THEN Insert(rest, t1) ELSE rest
     /\ ev' = [ op |-> op, outcome |-> m.res, err |-> m.err,
                further |-> (i = 0 /\ (initDone \/ InitPending)),
                wroteInitTime |-> m.wroteInitTime, ranSteps |-> m.ranSteps,
                hookThrew |-> m.hookThrew,
                hookLogs |-> m.hookLogs, onInitOk |-> onInitOk,
                emits |-> m.bus, setupCalls |-> m.setupCalls,
                onInitCalls |-> m.onInitCalls, onMountCalls |-> m.onMountCalls,
                pre |-> NoEv.pre ]

\* a new call; onMounts: how often the call has called onMount so far
NewTask == [stack |-> <<>>, onMounts |-> 0]

\* the method a pending call was made to
Api(t) == t.stack[1].fn

\* component.init()
InitCall ==
  /\ Len(tasks) < MaxTasks
  /\ \E thr \in Throwing({"beforeInit"}) :
       Settle(EnterInit(Machine(component, <<>>, thr)), NewTask, 0, "init", "none")
  /\ UNCHANGED othersBC

\* component.mount(container)
MountCall ==
  /\ Len(tasks) < MaxTasks
  /\ \E arg \in BOOLEAN : \E thr \in Throwing({"beforeInit"}) :
       Settle(EnterMount(Machine(component, <<>>, thr), arg), NewTask, 0, "mount", "none")
  /\ UNCHANGED othersBC

\* the promise of a pending onInit() settles
OnInitSettles ==
  /\ \E i \in 1..Len(tasks) : \E ok \in BOOLEAN : \E thr \in Throwing(HookPhases) :
       LET t == tasks[i] IN
       /\ Top(t.stack).fn = "init" /\ Top(t.stack).pc = "onInit"
       /\ Settle(ResumeOnInit(Machine(component, t.stack, thr), ok), t, i, Api(t),
                 IF ok THEN "yes" ELSE "no")
  /\ UNCHANGED othersBC

\* the promise of a pending onMount() settles
OnMountSettles ==
  /\ \E i \in 1..Len(tasks) : \E ok \in BOOLEAN : \E thr \in Throwing({}) :
       LET t == tasks[i] IN
       /\ Top(t.stack).fn = "mount" /\ Top(t.stack).pc = "onMount"
       /\ Settle(ResumeOnMount(Machine(component, t.stack, thr), ok), t, i, Api(t), "none")
  /\ UNCHANGED othersBC

\* component.destroy()
DestroyCall ==
  /\ LET m == DestroyBody(Machine(component, <<>>, NoThrow)) IN
     /\ component' = m.c
     /\ ev' = [NoEv EXCEPT !.op = "destroy", !.outcome = "resolved", !.emits = m.bus,
                           !.pre = Pre]
  /\ UNCHANGED <<tasks, initDone, othersBC>>

\* component.addHook(phase, callback)
AddHook ==
  /\ \E p \in HookPhases :
       /\ component.hooks["beforeInit"] + component.hooks["afterInit"] < MaxHooks
       /\ component' = [component EXCEPT !.hooks[p] = @ + 1]
  /\ ev' = [NoEv EXCEPT !.op = "addHook"]
  /\ UNCHANGED <<tasks, initDone, othersBC>>

\* component.clearError()
ClearError ==
  /\ component.state.error # "null"
  /\ LET m == SetState(Machine(component, <<>>, NoThrow), [error |-> "null"]) IN
     /\ component' = m.c
     /\ ev' = [NoEv EXCEPT !.op = "clearError", !.emits = m.bus]
  /\ UNCHANGED <<tasks, initDone, othersBC>>

\* --------------------------------------- parent / child destruction (SpecTree)
Comps == 1..NComp

\* the last step on the tree; nested tells a nested destroy() call from the next
NoTev == [op |-> "none", root |-> 0, kids |-> <<>>, nested |-> 0]

IdleTree ==
  /\ children = [c \in Comps |-> <<>>]
  /\ parent = [c \in Comps |-> 0]
  /\ destroyed = [c \in Comps |-> FALSE]
  /\ dstack = <<>>
  /\ tev = NoTev

InSeq(x, s) == \E i \in 1..Len(s) : s[i] = x

\* p.addChild(c): the map key is the child's id
AddChild ==
  /\ dstack = <<>>
  /\ \E p \in Comps : \E c \in Comps :
       /\ children' = [children EXCEPT ![p] = IF InSeq(c, @) THEN @ ELSE Append(@, c)]
       /\ parent' = [parent EXCEPT ![c] = p]
       /\ tev' = [NoTev EXCEPT !.op = "addChild", !.root = p]
  /\ UNCHANGED <<destroyed, dstack, othersTree>>

\* c.destroy() is called from outside
TreeDestroyCall ==
  /\ dstack = <<>>
  /\ \E c \in Comps :
       /\ dstack' = IF destroyed[c] THEN <<>> ELSE <<[comp |-> c, idx |-> 1]>>
       /\ tev' = [op |-> IF destroyed[c] THEN "destroyed" ELSE "destroy", root |-> c,
                  kids |-> children[c], nested |-> 0]
  /\ UNCHANGED <<children, parent, destroyed, othersTree>>

\* the frame below the finished one goes on to its next child
Resume(stk) ==
  IF stk = <<>> THEN stk ELSE [stk EXCEPT ![Len(stk)].idx = @ + 1]

\* one step of the innermost destroy(): the next child, or the component itself.
\* A stack deeper than NComp holds a component twice, so it never unwinds; of
\* such a stack only the innermost MaxTreeDepth frames are kept.
TreeDestroyStep ==
  /\ dstack # <<>>
  /\ LET f == Top(dstack)
         c == f.comp
         more == f.idx <= Len(children[c])
         calls == more /\ ~destroyed[children[c][f.idx]]
     IN /\ IF more
             THEN /\ dstack' = IF calls
                                 THEN Append(IF Len(dstack) < MaxTreeDepth
                                               THEN dstack ELSE Tail(dstack),
                                             [comp |-> children[c][f.idx], idx |-> 1])
                                 ELSE Resume(dstack)
                  /\ UNCHANGED <<children, destroyed>>
             ELSE /\ children' = [children EXCEPT ![c] = <<>>]
                  /\ destroyed' = [destroyed EXCEPT ![c] = TRUE]
                  /\ dstack' = Resume(SubSeq(dstack, 1, Len(dstack) - 1))
        /\ tev' = [tev EXCEPT !.op = IF dstack' = <<>> THEN "destroyed" ELSE "destroying",
                               !.nested = IF calls THEN 1 - @ ELSE @]
  /\ UNCHANGED <<parent, othersTree>>

\* ------------------------------------------------------------ ThemeManager
\* The toggle button's icon, labels and transition class, the meta theme-color,
\* the style sheets of custom themes and the screen-reader announcement are left
\* out: the manager never reads them back.
Undefined == "<undefined>"   \* the JavaScript value undefined

Null == "<null>"             \* the JavaScript value null

\* String(v), as setAttribute, classList.add and setItem convert their argument
String(v) == IF v = Undefined THEN "undefined" ELSE IF v = Null THEN "null" ELSE v

\* truthiness of a string or of undefined / null
Truthy(v) == v \notin {Undefined, Null, ""}

BuiltIn == <<"light", "dark", "auto">>

CustomThemes == {"solar"}

DomEvents == {"click", "change", "keydown"}

BusEvents == {"theme:set", "theme:toggle", "state:changed"}

\* Array.prototype.indexOf: 0-based, -1 when absent
IndexOf(s, x) ==
  IF InSeq(x, s) THEN (CHOOSE i \in 1..Len(s) : s[i] = x /\ \A j \in 1..(i - 1) : s[j] # x) - 1
  ELSE -1

\* new ThemeManager({config: opts}): the constructor's setState goes through
\* BaseComponent.setState, and its defaults are written over the passed config.
\* options keeps what was passed (the program does not).
NewThemeManager(opts) ==
  LET tracked == opts.enableStateTracking IN
  [ options |-> opts,
    state  |-> [ initialized |-> FALSE, destroyed |-> FALSE,
                 currentTheme |-> IF tracked THEN "light" ELSE Undefined,
                 systemPreference |-> IF tracked THEN "light" ELSE Undefined,
                 isTransitioning |-> FALSE,
                 supportsSystemPreference |-> FALSE ],
    config |-> [ enableEvents |-> opts.enableEvents,
                 enableStateTracking |-> opts.enableStateTracking,
                 enableTransitions |-> TRUE, enableSystemDetection |-> TRUE,
                 themes |-> BuiltIn ],
    toggleButton |-> FALSE,
    mediaQuery   |-> FALSE,
    dom    |-> [e \in DomEvents |-> 0],
    bus    |-> [e \in BusEvents |-> 0],
    transitionTimer |-> FALSE ]

NewDocument ==
  [ dataTheme |-> Null, bodyClasses |-> {}, buttons |-> 0, transitionSheets |-> 0 ]

\* the world a ThemeManager method works on, and what the method has done
World == [tm |-> tm, doc |-> doc, storage |-> storage, ret |-> Undefined, setupCalls |-> 0]

\* ThemeManager.saveTheme
saveTheme(w) ==
  IF env.storageThrows THEN w
  ELSE [w EXCEPT !.storage = String(w.tm.state.currentTheme)]

\* ThemeManager.handleStateChange, for the 'state:changed' of its own setState
handleStateChange(w, changes) ==
  IF "currentTheme" \in DOMAIN changes /\ Truthy(changes.currentTheme)
    THEN saveTheme(w)
    ELSE w

\* BaseComponent.setState on the ThemeManager: the 'state:changed' event reaches
\* every handleStateChange the manager has registered (running it again changes
\* nothing more)
tmSetState(w, changes) ==
  IF ~w.tm.config.enableStateTracking
    THEN w
    ELSE LET w1 == [w EXCEPT !.tm.state = changes @@ @]
         IN IF w1.tm.bus["state:changed"] > 0 THEN handleStateChange(w1, changes) ELSE w1

\* ThemeManager.getEffectiveTheme
getEffectiveTheme(t) ==
  IF t.state.currentTheme = "auto" THEN t.state.systemPreference ELSE t.state.currentTheme

\* ThemeManager.applyTheme; a body class theme-X is kept as X
applyTheme(w, theme) ==
  LET effectiveTheme == IF theme = "auto" THEN w.tm.state.systemPreference ELSE theme
      w1 == IF w.tm.config.enableTransitions
              THEN tmSetState(w, [isTransitioning |-> TRUE]) ELSE w
      w2 == [w1 EXCEPT !.doc.dataTheme = String(effectiveTheme),
                       !.doc.bodyClasses = (@ \ {"light", "dark"}) \cup {String(effectiveTheme)}]
  IN IF w2.tm.config.enableTransitions
       THEN [w2 EXCEPT !.tm.transitionTimer = TRUE]
       ELSE w2

\* ThemeManager.setTheme
setTheme(w, theme) ==
  IF ~InSeq(theme, w.tm.config.themes)
    THEN [w EXCEPT !.ret = "false"]
    ELSE IF w.tm.state.currentTheme = theme
      THEN [w EXCEPT !.ret = "true"]
      ELSE [applyTheme(tmSetState(w, [currentTheme |-> theme]), theme) EXCEPT !.ret = "true"]

\* ThemeManager.toggleTheme
toggleTheme(w) ==
  LET themes == w.tm.config.themes
      currentIndex == IndexOf(themes, w.tm.state.currentTheme)
      nextIndex == (currentIndex + 1) % Len(themes)
  IN setTheme(w, themes[nextIndex + 1])

\* ThemeManager.handleSystemPreferenceChange
handleSystemPreferenceChange(w, matches) ==
  LET w1 == tmSetState(w, [systemPreference |-> IF matches THEN "dark" ELSE "light"])
  IN IF w1.tm.state.currentTheme = "auto" THEN applyTheme(w1, "auto") ELSE w1

\* ThemeManager.detectSystemPreference
detectSystemPreference(w) ==
  IF ~w.tm.config.enableSystemDetection THEN w
  ELSE IF env.matchMedia
    THEN tmSetState([w EXCEPT !.tm.mediaQuery = TRUE],
                    [systemPreference |-> IF env.osDark THEN "dark" ELSE "light",
                     supportsSystemPreference |-> TRUE])
    ELSE w

\* ThemeManager.loadTheme
loadTheme(w) ==
  IF env.storageThrows
    THEN tmSetState(w, [currentTheme |-> "auto"])
    ELSE IF Truthy(w.storage) /\ InSeq(w.storage, w.tm.config.themes)
      THEN tmSetState(w, [currentTheme |-> w.storage])
      ELSE tmSetState(w, [currentTheme |-> "auto"])

\* ThemeManager.createToggleButton
createToggleButton(w) == [w EXCEPT !.tm.toggleButton = TRUE, !.doc.buttons = @ + 1]

\* ThemeManager.setupEventListeners: every call wraps the handlers anew, so
\* nothing is registered in place of an earlier listener
setupEventListeners(w) ==
  [w EXCEPT !.tm.dom = [e \in DomEvents |->
                          IF \/ e = "keydown"
                             \/ (e = "click" /\ w.tm.toggleButton)
                             \/ (e = "change" /\ w.tm.mediaQuery)
                            THEN @[e] + 1 ELSE @[e]],
            !.tm.bus = [e \in BusEvents |-> @[e] + 1],
            !.setupCalls = @ + 1]

\* ThemeManager.setupThemeTransitions
setupThemeTransitions(w) == [w EXCEPT !.doc.transitionSheets = @ + 1]

\* ThemeManager.onInit
tmOnInit(w) ==
  LET w1 == setupEventListeners(createToggleButton(loadTheme(detectSystemPreference(w))))
      w2 == applyTheme(w1, w1.tm.state.currentTheme)
  IN IF w2.tm.config.enableTransitions THEN setupThemeTransitions(w2) ELSE w2

\* BaseComponent.init on a ThemeManager without container and hooks: onInit
\* awaits nothing, so the call runs through before any other event is handled
tmInit(w) ==
  IF w.tm.state.initialized
    THEN w
    ELSE LET w1 == tmOnInit(w)
             w2 == IF w1.tm.config.enableEvents THEN setupEventListeners(w1) ELSE w1
         IN tmSetState(w2, [initialized |-> TRUE])

\* ThemeManager.onDestroy: the toggle button (toggleButton tells that it is in
\* the document) and the first transition style sheet are removed
tmOnDestroy(w) ==
  LET w1 == IF w.tm.toggleButton
              THEN [w EXCEPT !.tm.toggleButton = FALSE, !.doc.buttons = @ - 1] ELSE w
  IN IF w1.doc.transitionSheets > 0 THEN [w1 EXCEPT !.doc.transitionSheets = @ - 1] ELSE w1

\* BaseComponent.destroy on a ThemeManager without hooks, children and element:
\* onDestroy, removeAllEventListeners, removeAllDOMEventListeners, setState.
\* The timers set by applyTheme are left running.
tmDestroy(w) ==
  IF w.tm.state.destroyed THEN w
  ELSE LET w1 == tmOnDestroy(w)
           w2 == [w1 EXCEPT !.tm.bus = [e \in BusEvents |-> 0],
                            !.tm.dom = [e \in DomEvents |-> 0]]
       IN tmSetState(w2, [destroyed |-> TRUE, initialized |-> FALSE])

\* ThemeManager.addTheme(themeName, themeConfig)
addTheme(w, themeName) ==
  IF InSeq(themeName, w.tm.config.themes)
    THEN [w EXCEPT !.ret = "false"]
    ELSE [w EXCEPT !.tm.config.themes = Append(@, themeName), !.ret = "true"]

\* ThemeManager.removeTheme
removeTheme(w, themeName) ==
  IF InSeq(themeName, BuiltIn) \/ ~InSeq(themeName, w.tm.config.themes)
    THEN [w EXCEPT !.ret = "false"]
    ELSE LET i  == IndexOf(w.tm.config.themes, themeName) + 1
             w1 == [w EXCEPT !.tm.config.themes = RemoveAt(@, i)]
             w2 == IF w1.tm.state.currentTheme = themeName THEN setTheme(w1, "light") ELSE w1
         IN [w2 EXCEPT !.ret = "true"]

\* ThemeManager.importThemeConfig, for a configuration shaped as exportThemeConfig
\* returns it: currentTheme, and optionally config with the two switches
importThemeConfig(w, cfg) ==
  LET w1 == IF Truthy(cfg.currentTheme) /\ InSeq(cfg.currentTheme, w.tm.config.themes)
              THEN setTheme(w, cfg.currentTheme) ELSE w
      w2 == IF cfg.hasConfig
              THEN [w1 EXCEPT !.tm.config.enableTransitions = cfg.enableTransitions,
                              !.tm.config.enableSystemDetection = cfg.enableSystemDetection]
              ELSE w1
  IN [w2 EXCEPT !.ret = "true"]

\* a handler run once per registered listener
RECURSIVE ToggleTimes(_, _)
ToggleTimes(w, n) == IF n = 0 THEN w ELSE ToggleTimes(toggleTheme(w), n - 1)

RECURSIVE SetThemeTimes(_, _, _)
SetThemeTimes(w, theme, n) == IF n = 0 THEN w ELSE SetThemeTimes(setTheme(w, theme), theme, n - 1)

RECURSIVE PreferenceChangeTimes(_, _, _)
PreferenceChangeTimes(w, matches, n) ==
  IF n = 0 THEN w ELSE PreferenceChangeTimes(handleSystemPreferenceChange(w, matches), matches, n - 1)

\* ------------------------------------------------------------- I18nManager
\* The languages the manager ships with; 'de' stands for any other code.
Langs == <<"tr", "en">>

LangSet == {"tr", "en"}

LangNames == LangSet \cup {"de"}

\* the tables translations.get(language) can hold: none, the literal table of
\* the class, or the parsed locale file
Tables == {"none", "builtin", "file"}

\* new I18nManager({config: opts}); with state tracking off the constructor's
\* setState writes nothing, so state has no currentLanguage, availableLanguages
\* or loadedLanguages. asked and overlapped are history: the language of the
\* last setLanguage call for a supported language, and whether such a call was
\* made while another one was pending.
NewI18nManager(opts) ==
  [ config |-> opts,
    state  |-> [ initialized |-> FALSE, error |-> FALSE,
                 currentLanguage |-> IF opts.enableStateTracking THEN "tr" ELSE Undefined,
                 isLoading |-> FALSE,
                 loadedLanguages |-> IF opts.enableStateTracking THEN {"tr"} ELSE {} ],
    translations |-> [l \in LangSet |-> IF l = "tr" THEN "builtin" ELSE "none"],
    buttons |-> 0,
    bus     |-> 0,
    fetches |-> [l \in LangSet |-> 0],
    calls   |-> <<>>,
    asked   |-> Undefined,
    overlapped |-> FALSE,
    storage |-> Null,
    docLang |-> Null,
    env     |-> [storageThrows |-> FALSE, browser |-> "tr"] ]

NoIev == [op |-> "none", lang |-> Undefined, fetch |-> "none", ret |-> Undefined]

IdleI18n ==
  /\ i18n = NewI18nManager([enableEvents |-> TRUE, enableStateTracking |-> TRUE])
  /\ iev = NoIev

\* what a method of the I18nManager works on, and what it has done: its return
\* value, whether it threw, and what it is left awaiting
IWorld == [m |-> i18n, ret |-> Undefined, exc |-> FALSE, wait |-> "none"]

\* BaseComponent.setState on the I18nManager
iSetState(w, changes) ==
  IF ~w.m.config.enableStateTracking THEN w ELSE [w EXCEPT !.m.state = changes @@ @]

\* I18nManager.loadLanguagePreference: exceptions of getItem, and of includes on
\* a missing availableLanguages, are caught
loadLanguagePreference(w) ==
  IF w.m.env.storageThrows THEN w
  ELSE IF ~Truthy(w.m.storage) THEN w
  ELSE IF ~w.m.config.enableStateTracking THEN w
  ELSE IF w.m.storage \in LangSet THEN iSetState(w, [currentLanguage |-> w.m.storage])
  ELSE w

\* I18nManager.saveLanguagePreference
saveLanguagePreference(w) ==
  IF w.m.env.storageThrows THEN w
  ELSE [w EXCEPT !.m.storage = String(w.m.state.currentLanguage)]

\* I18nManager.detectBrowserLanguage
detectBrowserLanguage(w) ==
  IF ~w.m.config.enableStateTracking THEN [w EXCEPT !.exc = TRUE]
  ELSE IF w.m.env.browser \in LangSet
    THEN iSetState(w, [currentLanguage |-> w.m.env.browser])
    ELSE w

\* I18nManager.createLanguageToggle
createLanguageToggle(w) == [w EXCEPT !.m.buttons = @ + 1]

\* I18nManager.setupEventListeners: one more listener of 'i18n:set-language'
iSetupEventListeners(w) == [w EXCEPT !.m.bus = @ + 1]

\* I18nManager.loadTranslations up to its await of fetch
loadTranslationsStart(w, language) ==
  IF ~w.m.config.enableStateTracking THEN [w EXCEPT !.exc = TRUE]
  ELSE IF language \in w.m.state.loadedLanguages THEN [w EXCEPT !.wait = "tick"]
  ELSE [iSetState(w, [isLoading |-> TRUE]) EXCEPT !.m.fetches[language] = @ + 1,
                                                  !.wait = "fetch"]

\* I18nManager.loadBuiltInEnglishTranslations
loadBuiltInEnglishTranslations(w) == [w EXCEPT !.m.translations["en"] = "builtin"]

\* loadTranslations without the built-in fallback of its inner catch
loadTranslationsEnd_NoBuiltIn(w, language, ok) ==
  LET w1 == IF ok THEN [w EXCEPT !.m.translations[language] = "file"] ELSE w
      w2 == [w1 EXCEPT !.m.state.loadedLanguages = @ \cup {language}]
  IN iSetState(w2, [isLoading |-> FALSE])

\* I18nManager.loadTranslations from the settling of fetch on
loadTranslationsEnd(w, language, ok) ==
  LET w1 == IF ok THEN [w EXCEPT !.m.translations[language] = "file"]
            ELSE IF language = "en" THEN loadBuiltInEnglishTranslations(w)
            ELSE w
      w2 == [w1 EXCEPT !.m.state.loadedLanguages = @ \cup {language}]
  IN iSetState(w2, [isLoading |-> FALSE])

\* I18nManager.t for a key that every table defines: the language and the table
\* that serve it
tKey(m) ==
  LET cur == m.state.currentLanguage
  IN IF cur \in LangSet /\ m.translations[cur] # "none"
       THEN <<cur, m.translations[cur]>>
       ELSE <<"tr", m.translations["tr"]>>

\* the manager's record of a call left awaiting
Pending(w, kind, language) ==
  IF w.wait = "none" THEN w
  ELSE [w EXCEPT !.m.calls = Append(@, [kind |-> kind, lang |-> language, wait |-> w.wait]),
                 !.wait = "none"]

\* a setLanguage call has not settled yet
SetLanguagePending(m) == \E i \in 1..Len(m.calls) : m.calls[i].kind = "setLanguage"

\* I18nManager.setLanguage up to its first await
setLanguageStart(w, language) ==
  IF ~w.m.config.enableStateTracking THEN [w EXCEPT !.exc = TRUE]
  ELSE IF language \notin LangSet THEN [w EXCEPT !.ret = "false"]
  ELSE LET w0 == [w EXCEPT !.m.asked = language,
                           !.m.overlapped = @ \/ SetLanguagePending(w.m)]
       IN IF language = w.m.state.currentLanguage THEN [w0 EXCEPT !.ret = "true"]
          ELSE Pending(loadTranslationsStart(w0, language), "setLanguage", language)

\* I18nManager.setLanguage after loadTranslations
setLanguageEnd(w, language) ==
  LET w1 == saveLanguagePreference(iSetState(w, [currentLanguage |-> language]))
  IN [w1 EXCEPT !.m.docLang = language, !.ret = "true"]

\* I18nManager.toggleLanguage
toggleLanguage(w) ==
  LET currentIndex == IndexOf(Langs, w.m.state.currentLanguage)
      nextIndex == (currentIndex + 1) % Len(Langs)
  IN setLanguageStart(w, Langs[nextIndex + 1])

\* the 'i18n:set-language' listeners, run one after the other by EventBus.emit
RECURSIVE SetLanguageTimes(_, _, _)
SetLanguageTimes(w, language, n) ==
  IF n = 0 THEN w
  ELSE SetLanguageTimes([setLanguageStart(w, language) EXCEPT !.exc = FALSE], language, n - 1)

\* the catch of BaseComponent.init
iCatch(w) == [iSetState(w, [error |-> TRUE]) EXCEPT !.exc = TRUE, !.ret = "rejected"]

\* BaseComponent.init with I18nManager.onInit, up to the await of loadTranslations
iInitStart(w) ==
  IF w.m.state.initialized THEN [w EXCEPT !.ret = "resolved"]
  ELSE LET w1 == loadLanguagePreference(w)
       IN IF w1.m.env.storageThrows THEN iCatch(w1)
          ELSE LET w2 == IF ~Truthy(w1.m.storage) THEN detectBrowserLanguage(w1) ELSE w1
               IN IF w2.exc THEN iCatch(w2)
                  ELSE LET w3 == loadTranslationsStart(createLanguageToggle(w2),
                                                       w2.m.state.currentLanguage)
                       IN IF w3.exc THEN iCatch(w3)
                          ELSE Pending(w3, "init", w2.m.state.currentLanguage)

\* the rest of onInit and of BaseComponent.init (no hooks, no container)
iInitEnd(w) ==
  LET w1 == iSetupEventListeners(w)
      w2 == IF w1.m.config.enableEvents THEN iSetupEventListeners(w1) ELSE w1
  IN [iSetState(w2, [initialized |-> TRUE]) EXCEPT !.ret = "resolved"]

\* ---------------------------------------------------------- CodeNexlifyApp
\* the components registerComponents registers, in the order of the registry map
Registered == <<"theme", "i18n", "navigation", "pwa", "analytics">>

\* what 'new ComponentClass()' and 'await instance.init()' can come to
Outcomes == {"resolved", "rejected", "threw"}

\* new CodeNexlifyApp(). running, next, attempted and starts follow a call of
\* init(); ready counts the 'app:ready' events and readyAfter the components
\* attempted when the last one was emitted; last names the last step, and
\* cleaned tells that cleanup() ran since init() was called.
NewCodeNexlifyApp ==
  [ app |-> FALSE, components |-> {}, isInitialized |-> FALSE,
    running |-> FALSE, next |-> 0, attempted |-> <<>>, starts |-> 0,
    ready |-> 0, readyAfter |-> 0, errorShown |-> FALSE, exc |-> FALSE,
    cleaned |-> FALSE, last |-> "none" ]

\* the localStorage keys of the application
ThemeKey == "codenexlify-theme"

LanguageKey == "codenexlify-language"

PreferencesKey == "codenexlify-preferences"

ConfigKey == "codenexlify-config"

StorageKeys == {ThemeKey, LanguageKey, PreferencesKey, ConfigKey}

\* getItem of App's keys: no entry, or JSON text kept as its <<name, value>> pairs
NoItem == <<>>

\* new App(): state, the listeners of setupStateListeners, and the entries of
\* localStorage under the keys the App names
NewApp ==
  [ state |-> [isInitialized |-> FALSE, theme |-> "light", language |-> "tr", isOnline |-> TRUE],
    listeners |-> 0,
    storage |-> [k \in {PreferencesKey, ConfigKey} |-> NoItem] ]

IdleApp == capp = NewCodeNexlifyApp /\ core = NewApp

\* JSON.stringify({theme, language}): a property whose value is undefined is left out
DefinedPair(pair) == pair[2] # Undefined

JSONstringify(theme, language) ==
  SelectSeq(<<<<"theme", theme>>, <<"language", language>>>>, DefinedPair)

\* 'parsed.name || fallback' on the result of JSON.parse
ParsedOr(parsed, name, fallback) ==
  IF \E i \in 1..Len(parsed) : parsed[i][1] = name /\ Truthy(parsed[i][2])
    THEN (CHOOSE v \in {parsed[i][2] : i \in 1..Len(parsed)} :
            \E i \in 1..Len(parsed) : parsed[i] = <<name, v>>)
    ELSE fallback

\* App.saveUserPreferences writing under the configuration key
saveUserPreferences_ConfigKey(c) ==
  [c EXCEPT !.storage[ConfigKey] = JSONstringify(c.state.theme, c.state.language)]

\* App.saveUserPreferences
saveUserPreferences(c) ==
  [c EXCEPT !.storage[PreferencesKey] = JSONstringify(c.state.theme, c.state.language)]

\* App.updateState
updateState(c, newState) == saveUserPreferences([c EXCEPT !.state = newState @@ @])

\* App.loadUserPreferences
loadUserPreferences(c) ==
  LET preferences == c.storage[PreferencesKey]
  IN IF preferences = NoItem THEN c
     ELSE [c EXCEPT !.state.theme = ParsedOr(preferences, "theme", "light"),
                    !.state.language = ParsedOr(preferences, "language", "tr")]

\* App.setupStateListeners
setupStateListeners(c) == [c EXCEPT !.listeners = @ + 1]

\* App.init: loadConfig only reads, initializeCore works on the document
coreInit(c) ==
  [setupStateListeners(loadUserPreferences(c)) EXCEPT !.state.isInitialized = TRUE]

\* a listener of setupStateListeners run once per registration
RECURSIVE UpdateStateTimes(_, _, _)
UpdateStateTimes(c, newState, n) ==
  IF n = 0 THEN c ELSE UpdateStateTimes(updateState(c, newState), newState, n - 1)

\* localStorage as a whole: the theme entry, the language entry, and the
\* entries the App names
LocalStorage ==
  [k \in StorageKeys |->
     IF k = ThemeKey THEN storage
     ELSE IF k = LanguageKey THEN i18n.storage
     ELSE core.storage[k]]

\* CodeNexlifyApp.init up to the first 'await instance.init()'
appInitStart(c) ==
  [c EXCEPT !.app = TRUE, !.running = TRUE, !.next = 1, !.attempted = <<>>,
            !.starts = @ + 1, !.cleaned = FALSE, !.last = "start"]

\* one round of the loop of initializeComponents without its try / catch
initializeComponent_NoCatch(c, outcome) ==
  LET name == Registered[c.next]
      c1   == [c EXCEPT !.attempted = Append(@, [name |-> name, outcome |-> outcome]),
                        !.next = @ + 1, !.last = "component"]
  IN IF outcome = "resolved" THEN [c1 EXCEPT !.components = @ \cup {name}]
     ELSE [c1 EXCEPT !.exc = TRUE]

\* one round of the loop of initializeComponents
initializeComponent(c, outcome) ==
  LET name == Registered[c.next]
      c1   == [c EXCEPT !.attempted = Append(@, [name |-> name, outcome |-> outcome]),
                        !.next = @ + 1, !.last = "component"]
  IN IF outcome = "resolved" THEN [c1 EXCEPT !.components = @ \cup {name}] ELSE c1

\* CodeNexlifyApp.init after initializeComponents
appInitFinish(c) ==
  [c EXCEPT !.isInitialized = TRUE, !.ready = @ + 1, !.readyAfter = Len(c.attempted),
            !.running = FALSE, !.last = "finished"]

\* CodeNexlifyApp.handleInitializationError, from the catch of init
handleInitializationError(c) ==
  [c EXCEPT !.errorShown = TRUE, !.running = FALSE, !.exc = FALSE, !.last = "failed"]

\* CodeNexlifyApp.cleanup, from onBeforeUnload
cleanup(c) == [c EXCEPT !.components = {}, !.cleaned = TRUE, !.last = "unload"]

\* ------------------------------------------------------- NavigationManager
\* new NavigationManager({config: opts}) on a page with a navbar and nav links,
\* and with or without the hamburger and the menu. mobileMenuOpen:
\* state.mobileMenuOpen is true; listeners: the sets of DOM listeners registered
\* and not removed; inits: the init() calls that are past the initialized check.
NewNavigationManager(opts, page) ==
  [ config |-> opts,
    hasHamburger |-> page.hamburger,
    hasMenu |-> page.navMenu,
    inits |-> 0,
    state  |-> [initialized |-> FALSE, destroyed |-> FALSE,
                mobileMenuOpen |-> FALSE, scrolled |-> FALSE],
    listeners |-> 0,
    hamburgerActive |-> FALSE,
    menuActive |-> FALSE,
    bodyMenuOpen |-> FALSE,
    overflowHidden |-> FALSE,
    navbarScrolled |-> FALSE,
    isMobile |-> TRUE,
    scrolledDown |-> FALSE ]

IdleNav ==
  nav = NewNavigationManager([enableStateTracking |-> TRUE], [hamburger |-> TRUE, navMenu |-> TRUE])

\* BaseComponent.setState on the NavigationManager
nSetState(n, changes) ==
  IF ~n.config.enableStateTracking THEN n ELSE [n EXCEPT !.state = changes @@ @]

\* NavigationManager.openMobileMenu
openMobileMenu(n) ==
  [nSetState(n, [mobileMenuOpen |-> TRUE]) EXCEPT
     !.hamburgerActive = n.hasHamburger, !.menuActive = n.hasMenu,
     !.bodyMenuOpen = TRUE, !.overflowHidden = TRUE]

\* NavigationManager.closeMobileMenu
closeMobileMenu(n) ==
  [nSetState(n, [mobileMenuOpen |-> FALSE]) EXCEPT
     !.hamburgerActive = FALSE, !.menuActive = FALSE,
     !.bodyMenuOpen = FALSE, !.overflowHidden = FALSE]

\* NavigationManager.toggleMobileMenu
toggleMobileMenu(n) ==
  IF n.state.mobileMenuOpen THEN closeMobileMenu(n) ELSE openMobileMenu(n)

\* NavigationManager.handleNavLinkClick
handleNavLinkClick(n) == IF n.state.mobileMenuOpen THEN closeMobileMenu(n) ELSE n

\* NavigationManager.handleOutsideClick, for a click whose target is inside the
\* navbar or not
handleOutsideClick(n, isNavClick) ==
  IF ~n.state.mobileMenuOpen THEN n
  ELSE IF ~isNavClick THEN closeMobileMenu(n) ELSE n

\* NavigationManager.handleKeyDown
handleKeyDown(n, key) ==
  IF key = "Escape" /\ n.state.mobileMenuOpen THEN closeMobileMenu(n) ELSE n

\* NavigationManager.handleResize
handleResize(n) ==
  IF ~n.isMobile /\ n.state.mobileMenuOpen THEN closeMobileMenu(n) ELSE n

\* NavigationManager.handleScroll with its animation frame
handleScroll(n) ==
  IF n.scrolledDown # n.state.scrolled
    THEN LET n1 == nSetState(n, [scrolled |-> n.scrolledDown])
         IN [n1 EXCEPT !.navbarScrolled = n1.state.scrolled]
    ELSE n

\* BaseComponent.init up to its first await
navInitStart(n) == IF n.state.initialized THEN n ELSE [n EXCEPT !.inits = @ + 1]

\* BaseComponent.init from NavigationManager.onInit on (no hooks, no container)
navInitEnd(n) ==
  nSetState(handleResize(handleScroll([n EXCEPT !.listeners = @ + 1, !.inits = @ - 1])),
            [initialized |-> TRUE])

\* BaseComponent.destroy with NavigationManager.onDestroy (no hooks, no children)
navDestroy(n) ==
  IF n.state.destroyed THEN n
  ELSE LET n1 == IF n.state.mobileMenuOpen THEN closeMobileMenu(n) ELSE n
           n2 == [n1 EXCEPT !.navbarScrolled = FALSE, !.bodyMenuOpen = FALSE,
                            !.overflowHidden = FALSE, !.listeners = 0]
       IN nSetState(n2, [destroyed |-> TRUE, initialized |-> FALSE])

\* a handler run once per registered listener
RECURSIVE NavTimes(_, _, _)
NavTimes(n, handler, k) ==
  IF k = 0 THEN n
  ELSE NavTimes(CASE handler = "toggle"  -> toggleMobileMenu(n)
                  [] handler = "link"    -> handleNavLinkClick(n)
                  [] handler = "outside" -> handleOutsideClick(n, FALSE)
                  [] handler = "inside"  -> handleOutsideClick(n, TRUE)
                  [] handler = "Escape"  -> handleKeyDown(n, "Escape")
                  [] handler = "Enter"   -> handleKeyDown(n, "Enter")
                  [] handler = "resize"  -> handleResize(n)
                  [] handler = "scroll"  -> handleScroll(n),
                handler, k - 1)

\* ------------------------------------------------------------------ EventBus
\* Listeners are told apart by their id. What a callback does when it is
\* invoked is one of Acts: nothing, throw, emit its own event again, remove
\* itself with off(), or register one more listener of its event with on().
\* Callbacks are synchronous. off() by callback function is left out.
BusNames == {"e", "error", "ns:e"}

Acts == {"noop", "throw", "emit", "off", "on"}

Priorities == {0, 1}

Owners == {1, 2}      \* the components that register listeners through their own on()

BusRef == 0           \* the EventBus object itself: what on() returns for an invalid callback

\* the middleware: what the function does for an event name
Middleware == [n \in BusNames |-> IF n = "error" THEN "throw" ELSE "false"]

\* new EventBusClass(); invoked, blocked and the owner of a listener are
\* history: how often a once-listener was invoked (2: more than once), the
\* names a middleware returned false for, and who registered a listener.
\* owned is the eventListeners map of each component, as (name, id) pairs.
NewEventBus ==
  [ events |-> [n \in BusNames |-> <<>>], has |-> {}, nextId |-> 1, mw |-> <<>>,
    stack |-> <<>>, pending |-> <<>>,
    invoked |-> [i \in 1..MaxIds |-> 0], blocked |-> {},
    owned |-> [c \in Owners |-> <<>>] ]

\* an emit or emitAsync call in progress: idx is the position of the array
\* iterator, len the length map() read when it was called; atStart, called,
\* removed, throws and errorEmits are history of this call
NoFrame ==
  [ kind |-> "none", event |-> "", idx |-> 0, len |-> 0, toRemove |-> <<>>,
    hasError |-> FALSE, atStart |-> {}, called |-> <<>>, removed |-> {},
    throws |-> 0, errorEmits |-> 0, afterBlock |-> FALSE ]

\* the last step of a component on the EventBus
NoBev == [op |-> "none", comp |-> 0]

IdleBus == bus = NewEventBus /\ bev = NoBev

Ids(arr) == {arr[i].id : i \in 1..Len(arr)}

Range(seq) == {seq[i] : i \in 1..Len(seq)}

\* listeners.sort((a, b) => b.priority - a.priority): Array.prototype.sort is stable
RECURSIVE sortFrom(_, _)
sortFrom(arr, p) ==
  IF p < 0 THEN <<>>
  ELSE SelectSeq(arr, LAMBDA l : l.priority = p) \o sortFrom(arr, p - 1)

sortByPriority(arr) == sortFrom(arr, 1)

\* EventBus.on(eventName, callback, options); valid: callback is a function
on(b, event, valid, once, priority, act, owner) ==
  IF ~valid THEN b
  ELSE LET listener == [id |-> b.nextId, once |-> once, priority |-> priority,
                         act |-> act, owner |-> owner]
       IN [b EXCEPT !.has = @ \cup {event},
                    !.events[event] = sortByPriority(Append(@, listener)),
                    !.nextId = @ + 1]

\* what on() returned
onResult(b, valid) == IF valid THEN b.nextId ELSE BusRef

\* listeners.splice(index, 1) at the index of the listener with this id
removeId(arr, id) == SelectSeq(arr, LAMBDA l : l.id # id)

\* history: the calls in progress for an event see these listeners leave its array
noteRemoved(b, event, gone) ==
  [b EXCEPT !.stack = [k \in 1..Len(@) |->
                         IF @[k].event = event
                           THEN [@[k] EXCEPT !.removed = @ \cup gone]
                           ELSE @[k]]]

\* EventBus.off(eventName, callbackOrId): by id for a string, and
\* events.delete(eventName) for a value that is neither a string nor a function.
\* A pending emitAsync whose array is deleted from the map goes on with the
\* old array, which nobody reads again.
off(b, event, ref) ==
  IF event \notin b.has THEN b
  ELSE LET gone == IF ref = BusRef THEN Ids(b.events[event]) ELSE {ref} \cap Ids(b.events[event])
           b1 == noteRemoved(b, event, gone)
       IN IF ref = BusRef
            THEN [b1 EXCEPT !.has = @ \ {event}, !.events[event] = <<>>,
                            !.pending = [k \in 1..Len(@) |->
                                           IF @[k].event = event
                                             THEN [@[k] EXCEPT !.toRemove = <<>>]
                                             ELSE @[k]]]
            ELSE [b1 EXCEPT !.events[event] = removeId(@, ref)]

NewFrame(b, kind, event) ==
  [NoFrame EXCEPT !.kind = kind, !.event = event, !.len = Len(b.events[event]),
                  !.atStart = Ids(b.events[event]), !.afterBlock = event \in b.blocked]

\* EventBusClass.emit up to its loop
originalEmit(b, event) ==
  IF event \notin b.has THEN b
  ELSE [b EXCEPT !.stack = Append(@, NewFrame(b, "emit", event))]

\* this.emit after use(): the wrapper installed last is called first, and
\* calls the one installed before it unless its middleware returned false
RECURSIVE emitVia(_, _, _)
emitVia(b, k, event) ==
  IF k = 0 THEN originalEmit(b, event)
  ELSE IF b.mw[k][event] = "false"
         THEN [b EXCEPT !.blocked = @ \cup {event}]
         ELSE emitVia(b, k - 1, event)

emit(b, event) == emitVia(b, Len(b.mw), event)

\* EventBusClass.emitAsync up to listeners.map
emitAsync(b, event) ==
  IF event \notin b.has THEN b
  ELSE [b EXCEPT !.stack = Append(@, NewFrame(b, "emitAsync", event))]

\* namespace(prefix): the event name that its emitters pass on
namespace(prefix, event) == prefix \o ":" \o event

\* emitError without the test for the 'error' event
emitError_NoGuard(b, d, originalEvent) ==
  emit([b EXCEPT !.stack[d].errorEmits = @ + 1], "error")

\* EventBusClass.emitError, called by the frame at depth d
emitError(b, d, originalEvent) ==
  IF originalEvent = "error" THEN b
  ELSE emit([b EXCEPT !.stack[d].errorEmits = @ + 1], "error")

\* emit and emitAsync: the listener at the iterator's position is invoked
invoke(b) ==
  LET d  == Len(b.stack)
      f  == b.stack[d]
      l  == b.events[f.event][f.idx + 1]
      b1 == [b EXCEPT !.stack[d].idx = @ + 1,
                      !.stack[d].called = Append(@, l.id),
                      !.invoked[l.id] = IF l.once /\ @ < 2 THEN @ + 1 ELSE @]
      ok == [b1 EXCEPT !.stack[d].toRemove = IF l.once THEN Append(@, l.id) ELSE @]
  IN CASE l.act = "noop"  -> ok
       [] l.act = "throw" -> emitError([b1 EXCEPT !.stack[d].hasError = TRUE,
                                                  !.stack[d].throws = @ + 1],
                                       d, f.event)
       [] l.act = "emit"  -> IF d < MaxBusDepth THEN emit(ok, f.event) ELSE ok
       [] l.act = "off"   -> off(ok, f.event, l.id)
       [] l.act = "on"    -> IF b.nextId <= MaxIds
                               THEN on(ok, f.event, TRUE, FALSE, 1, "noop", 0)
                               ELSE ok

\* listenersToRemove.forEach: indexOf and splice on the array of the call
RECURSIVE removeOnce(_, _)
removeOnce(arr, ids) ==
  IF ids = <<>> THEN arr ELSE removeOnce(removeId(arr, Head(ids)), Tail(ids))

\* one step of the call on top of the stack: the next listener, or the end of
\* the loop. emit removes its one-time listeners and returns; emitAsync awaits
\* Promise.allSettled first.
step(b) ==
  LET d   == Len(b.stack)
      f   == b.stack[d]
      arr == b.events[f.event]
      more == IF f.kind = "emit" THEN f.idx < Len(arr) ELSE f.idx < f.len
      popped == [b EXCEPT !.stack = SubSeq(@, 1, d - 1)]
  IN IF more
       THEN IF f.idx < Len(arr) THEN invoke(b) ELSE [b EXCEPT !.stack[d].idx = @ + 1]
       ELSE IF f.kind = "emit"
              THEN [noteRemoved(popped, f.event, Range(f.toRemove))
                      EXCEPT !.events[f.event] = removeOnce(@, f.toRemove)]
              ELSE [popped EXCEPT !.pending =
                      Append(@, [event |-> f.event, toRemove |-> f.toRemove])]

\* emitAsync after Promise.allSettled
settle(b) ==
  LET f == Head(b.pending)
  IN [b EXCEPT !.pending = Tail(@), !.events[f.event] = removeOnce(@, f.toRemove)]

\* EventBus.use(middleware)
use(b, middleware) == [b EXCEPT !.mw = Append(@, middleware)]

\* BaseComponent.on of component c
componentOn(b, c, event, valid) ==
  [on(b, event, valid, FALSE, 0, "noop", c)
     EXCEPT !.owned[c] = Append(@, <<event, onResult(b, valid)>>)]

\* BaseComponent.removeAllEventListeners of component c, called by destroy():
\* the event names in the order of the map, the ids of a name in the order of
\* their registration
RECURSIVE offEach(_, _)
offEach(b, pairs) ==
  IF pairs = <<>> THEN b
  ELSE LET name == Head(pairs)[1]
           mine == SelectSeq(pairs, LAMBDA p : p[1] = name)
           rest == SelectSeq(pairs, LAMBDA p : p[1] # name)
           RECURSIVE offIds(_, _)
           offIds(bb, ps) == IF ps = <<>> THEN bb
                             ELSE offIds(off(bb, name, Head(ps)[2]), Tail(ps))
       IN offEach(offIds(b, mine), rest)

removeAllEventListeners(b, c) == [offEach(b, b.owned[c]) EXCEPT !.owned[c] = <<>>]

\* ------------------------------------------------------- ComponentRegistry
\* A Map is the sequence of its entries in insertion order.  A component class
\* is known by what its constructor, its init() and its cleanup() do.
RegNames == 1..MaxNames

Classes == {"Plain", "Comp", "BadCtor", "BadInit", "BadCleanup"}

\* new ComponentClass(options) throws
CtorThrows(cls) == cls = "BadCtor"

\* the instance has an init method; the promise it returns is rejected
HasInit(cls) == cls \in {"Comp", "BadInit", "BadCleanup"}

InitRejects(cls) == cls = "BadInit"

\* the instance has a cleanup method; it throws
HasCleanup(cls) == cls \in {"Comp", "BadInit", "BadCleanup"}

CleanupThrows(cls) == cls = "BadCleanup"

\* no instance (undefined, null)
NoInstance == "none"

NewComponentRegistry ==
  [ components |-> <<>>,
    instances  |-> [n \in RegNames |-> NoInstance] ]

\* initializeAll(): pos entries of the components map are behind its iterator,
\* awaiting is the instance whose init() is awaited.  changes (history): how
\* often the components map was changed while the call was pending.
NoAwait == [name |-> 0, cls |-> NoInstance]

NoRun ==
  [ active    |-> FALSE,
    done      |-> FALSE,
    pos       |-> 0,
    awaiting  |-> NoAwait,
    results   |-> <<>>,
    changes   |-> 0 ]

IdleRegistry == registry = NewComponentRegistry /\ run = NoRun

\* position of name in the components map, 0 when it has no entry
RegIndex(r, name) ==
  IF \E k \in 1..Len(r.components) : r.components[k].name = name
    THEN CHOOSE k \in 1..Len(r.components) : r.components[k].name = name
    ELSE 0

\* ComponentRegistry.has(name)
has(r, name) == RegIndex(r, name) # 0

\* ComponentRegistry.register(name, ComponentClass): Map.set keeps the place of
\* an entry that exists
register(r, name, cls) ==
  LET e == [name |-> name, cls |-> cls]
  IN IF has(r, name)
       THEN [r EXCEPT !.components[RegIndex(r, name)] = e]
       ELSE [r EXCEPT !.components = Append(@, e)]

\* mutant: unregister that forgets the instance
unregister_KeepsInstance(r, name) ==
  LET k == RegIndex(r, name)
  IN IF k = 0 THEN r
     ELSE [r EXCEPT !.components = [j \in 1..(Len(@) - 1) |-> IF j < k THEN @[j] ELSE @[j + 1]]]

\* ComponentRegistry.unregister(name): a cleanup() that throws leaves both maps
\* as they are
unregister(r, name) ==
  LET k == RegIndex(r, name)
      instance == r.instances[name]
  IN IF k = 0 THEN r
     ELSE IF instance # NoInstance /\ HasCleanup(instance) /\ CleanupThrows(instance) THEN r
     ELSE [r EXCEPT !.instances[name] = NoInstance,
                    !.components = [j \in 1..(Len(@) - 1) |-> IF j < k THEN @[j] ELSE @[j + 1]]]

\* ComponentRegistry.getInstance(name) threw inside its try block
constructionFails(r, name) ==
  /\ has(r, name)
  /\ r.instances[name] = NoInstance
  /\ CtorThrows(r.components[RegIndex(r, name)].cls)

\* ComponentRegistry.getInstance(name): the registry after the call
getInstance(r, name) ==
  IF ~has(r, name) THEN r
  ELSE IF r.instances[name] # NoInstance THEN r
  ELSE IF constructionFails(r, name) THEN r
  ELSE [r EXCEPT !.instances[name] = r.components[RegIndex(r, name)].cls]

\* ComponentRegistry.getInstance(name): the value returned
getInstanceResult(r, name) ==
  IF ~has(r, name) THEN NoInstance ELSE getInstance(r, name).instances[name]

\* ComponentRegistry.cleanupAll(): a cleanup() that throws is caught
cleanupAll(r) == [r EXCEPT !.instances = [n \in RegNames |-> NoInstance]]

\* ComponentRegistry.clear()
clear(r) == [cleanupAll(r) EXCEPT !.components = <<>>]

\* one entry of the results of initializeAll; failed (history): the construction
\* or the init() of the component failed in this call
Result(name, success, note, failed) ==
  [name |-> name, success |-> success, note |-> note, failed |-> failed]

\* the else branch of the loop body: no instance, or an instance without init
resultWithoutInit(name, failed) == Result(name, TRUE, TRUE, failed)

\* ComponentRegistry.initializeAll(): the loop over the live components map,
\* from the iterator's place up to the next await or to the return
RECURSIVE initializeLoop(_, _)
initializeLoop(r, c) ==
  IF c.pos >= Len(r.components)
    THEN [reg |-> r, run |-> [c EXCEPT !.active = FALSE, !.done = TRUE]]
  ELSE LET name == r.components[c.pos + 1].name
           failed == constructionFails(r, name)
           r1 == getInstance(r, name)
           instance == getInstanceResult(r, name)
           c1 == [c EXCEPT !.pos = @ + 1]
       IN IF instance # NoInstance /\ HasInit(instance)
            THEN [reg |-> r1, run |-> [c1 EXCEPT !.awaiting = [name |-> name, cls |-> instance]]]
            ELSE initializeLoop(r1, [c1 EXCEPT !.results = Append(@, resultWithoutInit(name, failed))])

\* ComponentRegistry.initializeAll(), up to its first await
initializeAll(r) == initializeLoop(r, [NoRun EXCEPT !.active = TRUE])

\* the awaited init() settles: its result is pushed and the loop goes on
initSettles(r, c) ==
  LET a == c.awaiting
      res == Result(a.name, ~InitRejects(a.cls), FALSE, InitRejects(a.cls))
  IN initializeLoop(r, [c EXCEPT !.awaiting = NoAwait, !.results = Append(@, res)])

\* what a change of the components map does to a pending initializeAll: the
\* iterator stays on its entry when an entry behind it is deleted
afterChange(c, r, r1, gone) ==
  IF c.done THEN NoRun
  ELSE IF ~c.active THEN c
  ELSE [c EXCEPT !.changes = IF r1.components # r.components THEN @ + 1 ELSE @,
                 !.pos = IF r1.components = <<>> THEN 0
                         ELSE IF gone # 0 /\ gone <= c.pos /\ r1.components # r.components
                           THEN c.pos - 1 ELSE c.pos]

\* ------------------------------------- ComponentRegistry: dependency validation
\* The registry as validateDependencies reads it: the names of the components
\* map, and the instances map as the sequence of its entries, each instance
\* with its dependencies array (BaseComponent: options.dependencies || []).
NewDependencies == [registered |-> {}, instances |-> <<>>]

NoIssues == [validated |-> FALSE, list |-> <<>>]

IdleDeps == deps = NewDependencies /\ issues = NoIssues

\* the keys of the instances map
Instantiated(d) == {d.instances[k].name : k \in 1..Len(d.instances)}

\* ComponentRegistry.getDependencyGraph(): per instance name, its dependencies
\* and the names that depend on it, in the order of the instances map
getDependencyGraph(d) ==
  LET names == Instantiated(d)
      entry(name) == d.instances[CHOOSE k \in 1..Len(d.instances) : d.instances[k].name = name]
      dependsOn(k, name) ==
        \E j \in 1..Len(d.instances[k].dependencies) : d.instances[k].dependencies[j] = name
  IN [name \in names |->
       [ dependencies |-> entry(name).dependencies,
         dependents   |-> SelectSeq([k \in 1..Len(d.instances) |-> k],
                                    LAMBDA k : dependsOn(k, name)) ]]

\* ComponentRegistry.hasCircularDependency(componentName, graph, visited,
\* recursionStack): the value returned, and the two sets as the call leaves them
RECURSIVE hasCircularDependency(_, _, _, _), visitDependencies(_, _, _, _, _)
\* mutant: the visited test is made before the recursionStack test
hasCircularDependency_VisitedFirst(componentName, graph, visited, recursionStack) ==
  IF componentName \in visited
    THEN [found |-> FALSE, visited |-> visited, recursionStack |-> recursionStack]
  ELSE IF componentName \in recursionStack
    THEN [found |-> TRUE, visited |-> visited, recursionStack |-> recursionStack]
  ELSE LET dependencies == IF componentName \in DOMAIN graph
                             THEN graph[componentName].dependencies ELSE <<>>
           r == visitDependencies(dependencies, 1, graph, visited \cup {componentName},
                                  recursionStack \cup {componentName})
       IN IF r.found THEN r
          ELSE [r EXCEPT !.recursionStack = @ \ {componentName}]

hasCircularDependency(componentName, graph, visited, recursionStack) ==
  IF componentName \in recursionStack
    THEN [found |-> TRUE, visited |-> visited, recursionStack |-> recursionStack]
  ELSE IF componentName \in visited
    THEN [found |-> FALSE, visited |-> visited, recursionStack |-> recursionStack]
  ELSE LET dependencies == IF componentName \in DOMAIN graph
                             THEN graph[componentName].dependencies ELSE <<>>
           r == visitDependencies(dependencies, 1, graph, visited \cup {componentName},
                                  recursionStack \cup {componentName})
       IN IF r.found THEN r
          ELSE [r EXCEPT !.recursionStack = @ \ {componentName}]

\* the loop over component.dependencies, from its k-th element
visitDependencies(dependencies, k, graph, visited, recursionStack) ==
  IF k > Len(dependencies)
    THEN [found |-> FALSE, visited |-> visited, recursionStack |-> recursionStack]
  ELSE LET r == hasCircularDependency(dependencies[k], graph, visited, recursionStack)
       IN IF r.found THEN r
          ELSE visitDependencies(dependencies, k + 1, graph, r.visited, r.recursionStack)

Issue(type, name, dependency) ==
  [type |-> type, component |-> name, dependency |-> dependency]

\* the issues that validateDependencies pushes for one entry of the graph
issuesOf(d, graph, name) ==
  LET dependencies == graph[name].dependencies
      missing == SelectSeq(dependencies, LAMBDA dep : dep \notin d.registered)
  IN [k \in 1..Len(missing) |-> Issue("missing_dependency", name, missing[k])]
     \o (IF hasCircularDependency(name, graph, {}, {}).found
           THEN <<Issue("circular_dependency", name, 0)>> ELSE <<>>)

\* ComponentRegistry.validateDependencies(): the loop over Object.entries(graph)
RECURSIVE validateFrom(_, _, _)
validateFrom(d, graph, k) ==
  IF k > Len(d.instances) THEN <<>>
  ELSE issuesOf(d, graph, d.instances[k].name) \o validateFrom(d, graph, k + 1)

validateDependencies(d) == validateFrom(d, getDependencyGraph(d), 1)

\* ------------------------------------------------ ThemeManager steps (SpecTheme)
\* options.config of a manager constructed with the theme settings left alone
DefaultOptions ==
  [ enableEvents |-> TRUE, enableStateTracking |-> TRUE,
    enableTransitions |-> TRUE, enableSystemDetection |-> TRUE, themes |-> BuiltIn ]

ThemeOptions ==
  { [DefaultOptions EXCEPT !.enableEvents = e, !.enableStateTracking = s] : e, s \in BOOLEAN }

\* options.config with theme settings of the caller's own
CtorOptions ==
  { [DefaultOptions EXCEPT !.enableTransitions = t, !.enableSystemDetection = d, !.themes = th] :
      t, d \in BOOLEAN, th \in {BuiltIn, <<"light", "dark">>} }

ThemeNames == {"light", "dark", "auto"} \cup CustomThemes

\* what an earlier visit may have left in storage
StoredValues == {Null, "dark", "solar"}

NoTmev == [op |-> "none", setupCalls |-> 0]

\* the steps that the last-step record tells apart
Recorded == {"init", "toggle:click", "toggle:shortcut", "toggle:event"}

ThemeStart ==
  /\ tm \in {NewThemeManager(o) : o \in ThemeOptions}
  /\ doc = NewDocument
  /\ storage \in StoredValues
  /\ env \in [matchMedia : BOOLEAN, storageThrows : BOOLEAN, osDark : BOOLEAN]
  /\ tmInited = FALSE
  /\ tmev = NoTmev

IdleTheme ==
  /\ tm = NewThemeManager(DefaultOptions)
  /\ doc = NewDocument
  /\ storage = Null
  /\ env = [matchMedia |-> TRUE, storageThrows |-> FALSE, osDark |-> FALSE]
  /\ tmInited = FALSE
  /\ tmev = NoTmev

\* store the world after a step
Done(w, op) ==
  /\ tm' = w.tm
  /\ doc' = w.doc
  /\ storage' = w.storage
  /\ tmev' = [op |-> IF op \in Recorded THEN op ELSE "other", setupCalls |-> w.setupCalls]

\* themeManager.init()
ThemeInit ==
  /\ \/ tm.state.initialized
     \/ /\ tm.dom["keydown"] + (IF tm.config.enableEvents THEN 2 ELSE 1) <= MaxListeners
        /\ doc.buttons < MaxListeners
  /\ Done(tmInit(World), "init")
  /\ tmInited' = TRUE
  /\ UNCHANGED <<env, othersTheme>>

\* a click on the toggle button
ToggleClick ==
  /\ doc.buttons > 0
  /\ Done(ToggleTimes(World, tm.dom["click"]), "toggle:click")
  /\ UNCHANGED <<env, tmInited, othersTheme>>

\* a keydown on the document: Ctrl/Cmd+Shift+T, or another key
KeyDown ==
  /\ \E shortcut \in BOOLEAN :
       Done(IF shortcut THEN ToggleTimes(World, tm.dom["keydown"]) ELSE World,
            IF shortcut THEN "toggle:shortcut" ELSE "keydown")
  /\ UNCHANGED <<env, tmInited, othersTheme>>

\* EventBus.emit('theme:toggle')
EmitThemeToggle ==
  /\ Done(ToggleTimes(World, tm.bus["theme:toggle"]), "toggle:event")
  /\ UNCHANGED <<env, tmInited, othersTheme>>

\* EventBus.emit('theme:set', {theme})
EmitThemeSet ==
  /\ \E theme \in ThemeNames :
       Done(SetThemeTimes(World, theme, tm.bus["theme:set"]), "emit:theme:set")
  /\ UNCHANGED <<env, tmInited, othersTheme>>

\* themeManager.setTheme(theme)
SetThemeCall ==
  /\ \E theme \in ThemeNames \cup {"bogus"} : Done(setTheme(World, theme), "setTheme")
  /\ UNCHANGED <<env, tmInited, othersTheme>>

\* themeManager.toggleTheme()
ToggleThemeCall ==
  /\ Done(toggleTheme(World), "toggleTheme")
  /\ UNCHANGED <<env, tmInited, othersTheme>>

\* themeManager.addTheme(name, {})
AddThemeCall ==
  /\ \E name \in ThemeNames : Done(addTheme(World, name), "addTheme")
  /\ UNCHANGED <<env, tmInited, othersTheme>>

\* themeManager.removeTheme(name)
RemoveThemeCall ==
  /\ \E name \in ThemeNames : Done(removeTheme(World, name), "removeTheme")
  /\ UNCHANGED <<env, tmInited, othersTheme>>

\* themeManager.importThemeConfig(config)
ImportThemeConfigCall ==
  /\ \E cfg \in [ currentTheme : ThemeNames \cup {Undefined}, hasConfig : BOOLEAN,
                  enableTransitions : BOOLEAN, enableSystemDetection : {TRUE} ] :
       /\ ~cfg.hasConfig => cfg.enableTransitions
       /\ Done(importThemeConfig(World, cfg), "importThemeConfig")
  /\ UNCHANGED <<env, tmInited, othersTheme>>

\* the OS colour scheme changes; with matchMedia the media query fires 'change'
SystemPreferenceChange ==
  /\ env' = [env EXCEPT !.osDark = ~@]
  /\ Done(IF env.matchMedia
            THEN PreferenceChangeTimes(World, ~env.osDark, tm.dom["change"])
            ELSE World,
          "preferenceChange")
  /\ UNCHANGED <<tmInited, othersTheme>>

\* a timer set by applyTheme fires; further ones may still be pending
TimerFires ==
  /\ tm.transitionTimer
  /\ \E more \in BOOLEAN :
       Done([tmSetState(World, [isTransitioning |-> FALSE]) EXCEPT !.tm.transitionTimer = more],
            "timer")
  /\ UNCHANGED <<env, tmInited, othersTheme>>

\* EventBus.off('state:changed') and EventBus.removeAllListeners('state:changed')
\* delete every listener of that event, the manager's handleStateChange included
BusRemoveListeners ==
  /\ \E es \in {{"state:changed"}} :
       Done([World EXCEPT !.tm.bus = [e \in BusEvents |-> IF e \in es THEN 0 ELSE @[e]]],
            "removeListeners")
  /\ UNCHANGED <<env, tmInited, othersTheme>>

NextTheme ==
  \/ ThemeInit
  \/ ToggleClick
  \/ KeyDown
  \/ EmitThemeToggle
  \/ EmitThemeSet
  \/ SetThemeCall
  \/ ToggleThemeCall
  \/ AddThemeCall
  \/ RemoveThemeCall
  \/ ImportThemeConfigCall
  \/ SystemPreferenceChange
  \/ TimerFires
  \/ BusRemoveListeners

InitTheme == ThemeStart /\ IdleBC /\ IdleTree /\ IdleI18n /\ IdleApp /\ IdleNav /\ IdleBus /\ IdleRegistry /\ IdleDeps

SpecTheme == InitTheme /\ [][NextTheme]_vars

\* a manager constructed with theme settings in options.config, then used
ConfigStart ==
  /\ tm \in {NewThemeManager(o) : o \in CtorOptions}
  /\ doc = NewDocument
  /\ storage \in StoredValues
  /\ env \in [matchMedia : BOOLEAN, storageThrows : BOOLEAN, osDark : BOOLEAN]
  /\ tmInited = FALSE
  /\ tmev = NoTmev

InitThemeConfig == ConfigStart /\ IdleBC /\ IdleTree /\ IdleI18n /\ IdleApp /\ IdleNav /\ IdleBus /\ IdleRegistry /\ IdleDeps

NextThemeConfig ==
  \/ ThemeInit
  \/ SetThemeCall
  \/ ToggleThemeCall
  \/ SystemPreferenceChange
  \/ TimerFires

SpecThemeConfig == InitThemeConfig /\ [][NextThemeConfig]_vars

\* themeManager.destroy()
ThemeDestroy ==
  /\ Done(tmDestroy(World), "destroy")
  /\ UNCHANGED <<env, tmInited, othersTheme>>

\* a manager that is used and destroyed
NextThemeDestroy ==
  \/ ThemeInit
  \/ SetThemeCall
  \/ ToggleClick
  \/ KeyDown
  \/ SystemPreferenceChange
  \/ TimerFires
  \/ ThemeDestroy

SpecThemeDestroy == InitTheme /\ [][NextThemeDestroy]_vars

\* -------------------------------------------------- I18nManager steps (SpecI18n)
I18nOptions == [enableEvents : BOOLEAN, enableStateTracking : BOOLEAN]

\* what an earlier visit may have left under 'codenexlify-language'
StoredLanguages == {Null, "en"}

I18nStart ==
  /\ i18n \in { [NewI18nManager(o) EXCEPT !.storage = st, !.env = e] :
                  o \in I18nOptions, st \in StoredLanguages,
                  e \in [storageThrows : BOOLEAN, browser : LangNames] }
  /\ iev = NoIev

\* store the world after a step
IDone(w, op, language, fetch) ==
  /\ i18n' = w.m
  /\ iev' = [op |-> op, lang |-> language, fetch |-> fetch,
             ret |-> IF w.exc THEN "rejected" ELSE w.ret]

\* a continuation is queued as a microtask: it runs before the next event
TickPending == \E i \in 1..Len(i18n.calls) : i18n.calls[i].wait = "tick"

\* i18nManager.init()
I18nInit ==
  /\ i18n.state.initialized \/ i18n.buttons < MaxInits
  /\ Len(i18n.calls) < MaxCalls
  /\ IDone(iInitStart(IWorld), "init", Undefined, "none")
  /\ UNCHANGED othersI18n

\* i18nManager.setLanguage(language)
I18nSetLanguage ==
  /\ Len(i18n.calls) < MaxCalls
  /\ \E language \in LangNames :
       IDone(setLanguageStart(IWorld, language), "setLanguage", language, "none")
  /\ UNCHANGED othersI18n

\* a click on a language toggle button
I18nToggleClick ==
  /\ i18n.buttons > 0
  /\ ~TickPending
  /\ Len(i18n.calls) < MaxCalls
  /\ IDone(toggleLanguage(IWorld), "toggle", Undefined, "none")
  /\ UNCHANGED othersI18n

\* EventBus.emit('i18n:set-language', {language})
I18nEmitSetLanguage ==
  /\ i18n.bus > 0
  /\ Len(i18n.calls) + i18n.bus <= MaxCalls
  /\ \E language \in LangNames :
       IDone(SetLanguageTimes(IWorld, language, i18n.bus), "emit", language, "none")
  /\ UNCHANGED othersI18n

\* a pending call goes on: the first queued continuation, or else a call whose
\* fetch settles, with a response that is ok or not (or a network error)
I18nSettle ==
  /\ \E i \in 1..Len(i18n.calls), ok \in BOOLEAN :
       LET call == i18n.calls[i]
           w0   == [IWorld EXCEPT !.m.calls = RemoveAt(@, i)]
           w1   == IF call.wait = "fetch" THEN loadTranslationsEnd(w0, call.lang, ok) ELSE w0
       IN /\ IF TickPending
               THEN call.wait = "tick" /\ \A j \in 1..(i - 1) : i18n.calls[j].wait # "tick"
               ELSE TRUE
          /\ call.wait = "tick" => ok
          /\ IDone(IF call.kind = "init" THEN iInitEnd(w1) ELSE setLanguageEnd(w1, call.lang),
                   IF call.kind = "init" THEN "init:settled" ELSE "setLanguage:settled",
                   call.lang,
                   IF call.wait = "tick" THEN "none" ELSE IF ok THEN "ok" ELSE "failed")
  /\ UNCHANGED othersI18n

InitI18n == I18nStart /\ IdleBC /\ IdleTree /\ IdleTheme /\ IdleApp /\ IdleNav /\ IdleBus /\ IdleRegistry /\ IdleDeps

NextI18n ==
  \/ I18nInit
  \/ I18nSetLanguage
  \/ I18nToggleClick
  \/ I18nEmitSetLanguage
  \/ I18nSettle

SpecI18n == InitI18n /\ [][NextI18n]_vars

\* ------------------------------------------------ CodeNexlifyApp steps (SpecApp)
\* codeNexlifyApp.init()
AppInit ==
  /\ ~capp.running
  /\ capp.starts < MaxStarts
  /\ capp' = appInitStart(capp)
  /\ UNCHANGED <<core, othersApp>>

\* the init() of the component being initialised settles, or its constructor
\* threw; after the last component init() goes on to its end
AppComponentSettles ==
  /\ capp.running
  /\ capp.next <= Len(Registered)
  /\ \E outcome \in Outcomes :
       LET c1 == initializeComponent(capp, outcome)
       IN capp' = IF c1.exc THEN handleInitializationError(c1)
                  ELSE IF c1.next > Len(Registered) THEN appInitFinish(c1)
                  ELSE c1
  /\ UNCHANGED <<core, othersApp>>

\* the window's 'beforeunload', listened to once init() has set up its listeners
AppBeforeUnload ==
  /\ capp.isInitialized
  /\ ~capp.cleaned
  /\ capp' = cleanup(capp)
  /\ UNCHANGED <<core, othersApp>>

InitApp == IdleApp /\ IdleBC /\ IdleTree /\ IdleTheme /\ IdleI18n /\ IdleNav /\ IdleBus /\ IdleRegistry /\ IdleDeps

NextApp ==
  \/ AppInit
  \/ AppComponentSettles
  \/ AppBeforeUnload

SpecApp == InitApp /\ [][NextApp]_vars

\* --------------------------------------- the application's storage (SpecStorage)
\* the window's 'online' / 'offline' event, listened to from new App()
CoreNetworkChange ==
  /\ capp.app
  /\ core' = updateState(core, [isOnline |-> ~core.state.isOnline])
  /\ UNCHANGED <<capp, othersApp>>

\* app.init()
CoreInit ==
  /\ capp.app
  /\ core.listeners < MaxListeners
  /\ core' = coreInit(core)
  /\ UNCHANGED <<capp, othersApp>>

\* EventBus.emit('theme:change', theme) and EventBus.emit('language:change', language)
CoreEmitChange ==
  /\ core.listeners > 0
  /\ \E newState \in {[theme |-> "dark"], [theme |-> Undefined], [language |-> "en"]} :
       core' = UpdateStateTimes(core, newState, core.listeners)
  /\ UNCHANGED <<capp, othersApp>>

\* codeNexlifyApp.init() with every component initialised
StorageAppInit ==
  /\ ~capp.app
  /\ capp' = [appInitStart(capp) EXCEPT !.running = FALSE]
  /\ UNCHANGED <<core, othersApp>>

InitStorage == IdleApp /\ IdleBC /\ IdleTree /\ IdleTheme /\ IdleI18n /\ IdleNav /\ IdleBus /\ IdleRegistry /\ IdleDeps

NextStorage ==
  \/ StorageAppInit
  \/ CoreNetworkChange
  \/ CoreInit
  \/ CoreEmitChange
  \/ ThemeInit
  \/ SetThemeCall
  \/ I18nSetLanguage
  \/ I18nSettle

SpecStorage == InitStorage /\ [][NextStorage]_vars

\* ------------------------------------------- NavigationManager steps (SpecNav)
NavStart ==
  nav \in {NewNavigationManager(o, pg) : o \in [enableStateTracking : BOOLEAN],
                                        pg \in [hamburger : BOOLEAN, navMenu : BOOLEAN]}

\* navigationManager.init()
NavInit ==
  /\ nav.state.initialized \/ nav.listeners + nav.inits < MaxListeners
  /\ nav' = navInitStart(nav)
  /\ UNCHANGED othersNav

\* an init() call goes on after its awaits
NavInitSettles ==
  /\ nav.inits > 0
  /\ nav' = navInitEnd(nav)
  /\ UNCHANGED othersNav

\* a click on the hamburger: toggleMobileMenu stops its propagation
NavHamburgerClick ==
  /\ nav.hasHamburger
  /\ nav' = NavTimes(nav, "toggle", nav.listeners)
  /\ UNCHANGED othersNav

\* a click on a nav link, which then reaches the document
NavLinkClick ==
  /\ nav' = NavTimes(NavTimes(nav, "link", nav.listeners), "inside", nav.listeners)
  /\ UNCHANGED othersNav

\* a click elsewhere, inside or outside the navbar
NavDocumentClick ==
  /\ \E where \in {"inside", "outside"} : nav' = NavTimes(nav, where, nav.listeners)
  /\ UNCHANGED othersNav

\* a key pressed
NavKeyDown ==
  /\ \E key \in {"Escape", "Enter"} : nav' = NavTimes(nav, key, nav.listeners)
  /\ UNCHANGED othersNav

\* the window is resized across the mobile breakpoint
NavResize ==
  /\ nav' = NavTimes([nav EXCEPT !.isMobile = ~@], "resize", nav.listeners)
  /\ UNCHANGED othersNav

\* the page is scrolled across the sticky offset
NavScroll ==
  /\ nav' = NavTimes([nav EXCEPT !.scrolledDown = ~@], "scroll", nav.listeners)
  /\ UNCHANGED othersNav

\* navigationManager.destroy()
NavDestroy ==
  /\ nav' = navDestroy(nav)
  /\ UNCHANGED othersNav

InitNav == NavStart /\ IdleBC /\ IdleTree /\ IdleTheme /\ IdleI18n /\ IdleApp /\ IdleBus /\ IdleRegistry /\ IdleDeps

NextNav ==
  \/ NavInit
  \/ NavInitSettles
  \/ NavHamburgerClick
  \/ NavLinkClick
  \/ NavDocumentClick
  \/ NavKeyDown
  \/ NavResize
  \/ NavScroll
  \/ NavDestroy

SpecNav == InitNav /\ [][NextNav]_vars

\* ---------------------------------------------------- EventBus steps (SpecBus)
\* the listeners that are registered from outside a listener
Registrations ==
  {[event |-> "e", once |-> o, priority |-> 0, act |-> a] : o \in BOOLEAN, a \in Acts}
    \cup {[event |-> "e", once |-> FALSE, priority |-> 1, act |-> "noop"]}
    \cup {[event |-> "error", once |-> FALSE, priority |-> 0, act |-> a] :
            a \in {"noop", "throw"}}

\* EventBus.on(eventName, callback, options)
EBOn ==
  /\ bus.stack = <<>>
  /\ bus.nextId <= MaxIds
  /\ \E r \in Registrations :
       /\ ~r.once
       /\ bus' = on(bus, r.event, TRUE, FALSE, r.priority, r.act, 0)
  /\ bev' = NoBev
  /\ UNCHANGED othersBus

\* EventBus.once(eventName, callback)
EBOnce ==
  /\ bus.stack = <<>>
  /\ bus.nextId <= MaxIds
  /\ \E r \in Registrations :
       /\ r.once
       /\ bus' = on(bus, r.event, TRUE, TRUE, r.priority, r.act, 0)
  /\ UNCHANGED <<bev, othersBus>>

\* EventBus.namespace('ns').on('e', callback)
EBNamespaceOn ==
  /\ bus.stack = <<>>
  /\ bus.nextId <= MaxIds
  /\ bus' = on(bus, namespace("ns", "e"), TRUE, FALSE, 0, "noop", 0)
  /\ UNCHANGED <<bev, othersBus>>

\* EventBus.off(eventName, id)
EBOff ==
  /\ bus.stack = <<>>
  /\ \E n \in BusNames : \E id \in Ids(bus.events[n]) : bus' = off(bus, n, id)
  /\ UNCHANGED <<bev, othersBus>>

\* EventBus.use(middleware); the middleware is installed once
EBUse ==
  /\ bus.stack = <<>>
  /\ bus.mw = <<>>
  /\ bus' = use(bus, Middleware)
  /\ UNCHANGED <<bev, othersBus>>

\* EventBus.emit(eventName)
EBEmit ==
  /\ bus.stack = <<>>
  /\ \E n \in {"e", "error"} : bus' = emit(bus, n)
  /\ UNCHANGED <<bev, othersBus>>

\* EventBus.emitAsync(eventName)
EBEmitAsync ==
  /\ bus.stack = <<>>
  /\ Len(bus.pending) < MaxPending
  /\ \E n \in {"e", "error"} : bus' = emitAsync(bus, n)
  /\ UNCHANGED <<bev, othersBus>>

\* EventBus.namespace('ns').emit('e')
EBNamespaceEmit ==
  /\ bus.stack = <<>>
  /\ bus' = emit(bus, namespace("ns", "e"))
  /\ UNCHANGED <<bev, othersBus>>

\* EventBus.namespace('ns').emitAsync('e')
EBNamespaceEmitAsync ==
  /\ bus.stack = <<>>
  /\ Len(bus.pending) < MaxPending
  /\ bus' = emitAsync(bus, namespace("ns", "e"))
  /\ UNCHANGED <<bev, othersBus>>

\* the innermost emit or emitAsync call goes on
EBStep ==
  /\ bus.stack # <<>>
  /\ bus' = step(bus)
  /\ UNCHANGED <<bev, othersBus>>

\* Promise.allSettled of the oldest pending emitAsync call resolves
EBAsyncSettles ==
  /\ bus.stack = <<>>
  /\ bus.pending # <<>>
  /\ bus' = settle(bus)
  /\ UNCHANGED <<bev, othersBus>>

InitBus == IdleBus /\ IdleBC /\ IdleTree /\ IdleTheme /\ IdleI18n /\ IdleApp /\ IdleNav /\ IdleRegistry /\ IdleDeps

NextBus ==
  \/ EBOn
  \/ EBOnce
  \/ EBNamespaceOn
  \/ EBOff
  \/ EBUse
  \/ EBEmit
  \/ EBEmitAsync
  \/ EBNamespaceEmit
  \/ EBNamespaceEmitAsync
  \/ EBStep
  \/ EBAsyncSettles

SpecBus == InitBus /\ [][NextBus]_vars

\* emit calls alone, with the middleware installed or not
NextBusEmit ==
  \/ EBOn
  \/ EBOnce
  \/ EBOff
  \/ EBUse
  \/ EBEmit
  \/ EBStep

SpecBusEmit == InitBus /\ [][NextBusEmit]_vars

\* ------------------------- components on the EventBus (SpecBusOwners)
\* component.on(eventName, callback); the callback may not be a function
OwnerOn ==
  /\ bus.nextId <= MaxIds
  /\ \E c \in Owners : \E n \in {"e", "error"} : \E valid \in BOOLEAN :
       /\ Len(bus.owned[c]) < MaxIds
       /\ bus' = componentOn(bus, c, n, valid)
  /\ bev' = NoBev
  /\ UNCHANGED othersBus

\* component.destroy(): its removeAllEventListeners
OwnerDestroy ==
  /\ \E c \in Owners :
       /\ bus' = removeAllEventListeners(bus, c)
       /\ bev' = [NoBev EXCEPT !.op = "destroy", !.comp = c]
  /\ UNCHANGED othersBus

InitBusOwners == IdleBus /\ IdleBC /\ IdleTree /\ IdleTheme /\ IdleI18n /\ IdleApp /\ IdleNav /\ IdleRegistry /\ IdleDeps

NextBusOwners ==
  \/ OwnerOn
  \/ OwnerDestroy
  \/ EBOn

SpecBusOwners == InitBusOwners /\ [][NextBusOwners]_vars

\* ------------------------------------------- ComponentRegistry steps (SpecRegistry)
\* registry.register(name, ComponentClass)
RegRegister ==
  \E name \in RegNames, cls \in Classes :
    /\ registry' = register(registry, name, cls)
    /\ run' = afterChange(run, registry, registry', 0)
    /\ run'.changes <= MaxChanges
    /\ UNCHANGED othersReg

\* registry.unregister(name)
RegUnregister ==
  \E name \in RegNames :
    /\ registry' = unregister(registry, name)
    /\ run' = afterChange(run, registry, registry', RegIndex(registry, name))
    /\ run'.changes <= MaxChanges
    /\ UNCHANGED othersReg

\* registry.getInstance(name)
RegGetInstance ==
  \E name \in RegNames :
    /\ registry' = getInstance(registry, name)
    /\ run' = afterChange(run, registry, registry', 0)
    /\ run'.changes <= MaxChanges
    /\ UNCHANGED othersReg

\* registry.cleanupAll()
RegCleanupAll ==
  /\ registry' = cleanupAll(registry)
  /\ run' = afterChange(run, registry, registry', 0)
  /\ run'.changes <= MaxChanges
  /\ UNCHANGED othersReg

\* registry.clear()
RegClear ==
  /\ registry' = clear(registry)
  /\ run' = afterChange(run, registry, registry', 0)
  /\ run'.changes <= MaxChanges
  /\ UNCHANGED othersReg

\* registry.initializeAll() is called, one call at a time
RegInitializeAll ==
  /\ ~run.active
  /\ LET n == initializeAll(registry)
     IN registry' = n.reg /\ run' = n.run
  /\ UNCHANGED othersReg

\* the init() that initializeAll awaits settles
RegInitSettles ==
  /\ run.active
  /\ LET n == initSettles(registry, run)
     IN registry' = n.reg /\ run' = n.run
  /\ UNCHANGED othersReg

InitRegistry ==
  IdleRegistry /\ IdleBC /\ IdleTree /\ IdleTheme /\ IdleI18n /\ IdleApp /\ IdleNav /\ IdleBus /\ IdleDeps

NextRegistry ==
  \/ RegRegister
  \/ RegUnregister
  \/ RegGetInstance
  \/ RegCleanupAll
  \/ RegClear
  \/ RegInitializeAll
  \/ RegInitSettles

SpecRegistry == InitRegistry /\ [][NextRegistry]_vars

\* a registry used through register, unregister and getInstance only
NextRegistryCalls ==
  \/ RegRegister
  \/ RegUnregister
  \/ RegGetInstance

SpecRegistryCalls == InitRegistry /\ [][NextRegistryCalls]_vars

\* ------------------------------ dependency validation steps (SpecDependencies)
\* the dependencies arrays that a component is constructed with
RECURSIVE ArraysOver(_, _)
ArraysOver(S, n) ==
  IF n = 0 THEN {<<>>}
  ELSE LET shorter == ArraysOver(S, n - 1)
       IN shorter \cup {Append(a, x) : a \in {b \in shorter : Len(b) = n - 1},
                                       x \in S}

DependencyArrays ==
  {a \in ArraysOver(RegNames, MaxNames) : \A i, j \in 1..Len(a) : i # j => a[i] # a[j]}

\* registry.register(name, ComponentClass)
DepRegister ==
  \E name \in RegNames :
    /\ name \notin deps.registered
    /\ deps' = [deps EXCEPT !.registered = @ \cup {name}]
    /\ issues' = NoIssues
    /\ UNCHANGED othersDep

\* registry.getInstance(name) constructs the instance, with its dependencies
DepGetInstance ==
  \E name \in RegNames, dependencies \in DependencyArrays :
    /\ name \in deps.registered
    /\ name \notin Instantiated(deps)
    /\ deps' = [deps EXCEPT !.instances =
                   Append(@, [name |-> name, dependencies |-> dependencies])]
    /\ issues' = NoIssues
    /\ UNCHANGED othersDep

\* registry.cleanupAll()
DepCleanupAll ==
  /\ deps.instances # <<>>
  /\ deps' = [deps EXCEPT !.instances = <<>>]
  /\ issues' = NoIssues
  /\ UNCHANGED othersDep

\* registry.validateDependencies()
DepValidate ==
  /\ issues' = [validated |-> TRUE, list |-> validateDependencies(deps)]
  /\ UNCHANGED <<deps, othersDep>>

InitDependencies ==
  IdleDeps /\ IdleBC /\ IdleTree /\ IdleTheme /\ IdleI18n /\ IdleApp /\ IdleNav /\ IdleBus /\ IdleRegistry

NextDependencies ==
  \/ DepRegister
  \/ DepGetInstance
  \/ DepCleanupAll
  \/ DepValidate

SpecDependencies == InitDependencies /\ [][NextDependencies]_vars

\* ------------------------------------------------------- specifications
Init == InitBC /\ IdleTree /\ IdleTheme /\ IdleI18n /\ IdleApp /\ IdleNav /\ IdleBus /\ IdleRegistry /\ IdleDeps

Next ==
  \/ InitCall
  \/ MountCall
  \/ OnInitSettles
  \/ OnMountSettles
  \/ DestroyCall
  \/ AddHook
  \/ ClearError

Spec == Init /\ [][Next]_vars

\* ------------------------------------------------ claims on the lifecycle
InitResolved == ev.op = "init" /\ ev.outcome = "resolved"

\* C1: for any BaseComponent, whatever its config options, once init() has
\* resolved state.initialized is true.
C1_InitializedAfterInit == InitResolved => component.state.initialized

\* C2: a further init() call, made after an earlier call resolved or while one is
\* still pending, does not run the initialisation steps (beforeInit hooks, onInit,
\* afterInit hooks) again and leaves performance.initTime unchanged.
C2_InitStepsOnce ==
  (ev.op = "init" /\ ev.further) =>
     /\ ~ev.ranSteps
     /\ ev.onInitCalls = 0
     /\ ~ev.wroteInitTime

\* C3: after destroy() resolves on an initialised and mounted (isMounted())
\* component with default configuration, state.destroyed is true, state.mounted
\* and state.initialized are false, isReady() and isMounted() return false, and
\* the element is no longer a child of the container.
C3_Case ==
  /\ ev.op = "destroy" /\ ev.outcome = "resolved"
  /\ ev.pre.initialized /\ ev.pre.isMounted
  /\ component.config = DefaultConfig

C4_ReadyAfterInit ==
  (InitResolved /\ ~component.state.destroyed /\ component.config.enableStateTracking)
     => isReady(component)

\* C5: if onInit rejects, init() rejects with the same error, state.error holds
\* that error, state.initialized stays false, and exactly one 'component:error'
\* event is emitted.
C5_OnInitRejects ==
  (ev.op = "init" /\ ev.onInitOk = "no") =>
     /\ ev.outcome = "rejected"
     /\ ev.err = "E_init"
     /\ component.state.error = "E_init"
     /\ ~component.state.initialized
     /\ ev.emits["component:error"] = 1

\* C6: a hook that throws does not abort the operation: every hook of the phase
\* still runs, in registration order, init() goes on to onInit, and when onInit
\* succeeds init() resolves with the component initialised.
C6_HookErrorsContained ==
  /\ \A k \in 1..Len(ev.hookLogs) :
       ev.hookLogs[k].ran = [i \in 1..ev.hookLogs[k].total |-> i]
  /\ (ev.op = "init" /\ ev.hookThrew /\ ev.ranSteps) => ev.onInitCalls = 1
  /\ (ev.op = "init" /\ ev.hookThrew /\ ev.onInitOk = "yes") =>
       /\ ev.outcome # "rejected"
       /\ ev.outcome = "resolved" => component.state.initialized

\* C26: a single mount() call performs the mount steps (beforeMount hooks,
\* onMount, attaching the element, the 'component:mounted' event) exactly once,
\* also when the component was not yet initialised and mount() initialises it
\* first: no pending mount() call has called onMount twice.
C26_MountStepsOnce ==
  \A i \in 1..Len(tasks) : Api(tasks[i]) = "mount" => tasks[i].onMounts <= 1

\* C27: once destroy() has completed on a component, later init() and mount()
\* calls leave it inert: with no call pending on a destroyed component, the
\* next step runs neither onInit nor onMount, state.initialized and
\* state.mounted stay false and the element is not attached again.
C27_InertAfterDestroy ==
  [][(component.state.destroyed /\ tasks = <<>>)
       => /\ ev'.onInitCalls = 0
          /\ ev'.onMountCalls = 0
          /\ ~component'.state.initialized
          /\ ~component'.state.mounted
          /\ ~component'.attached]_vars

\* ---------------------------------------------- claims on the ThemeManager
\* C7: during init() of a component, setupEventListeners is invoked exactly once
\* when config.enableEvents is true and not at all when it is false; stated here
\* for the ThemeManager subclass.
C7_SetupListenersOnce ==
  [][(tmev'.op = "init" /\ ~tm.state.initialized) =>
       tmev'.setupCalls = (IF tm.config.enableEvents THEN 1 ELSE 0)]_vars

ToggleActivations == {"toggle:click", "toggle:shortcut", "toggle:event"}

\* the theme one position after cur in the cycle of themes
CycleNext(themes, cur) == themes[((IndexOf(themes, cur) + 1) % Len(themes)) + 1]

\* C9: on an initialised ThemeManager, one activation of the theme toggle (click,
\* shortcut or 'theme:toggle' event) advances state.currentTheme by exactly one
\* position in the cycle of config.themes.
C9_ToggleAdvancesOne ==
  [][(tmev'.op \in ToggleActivations /\ tm.state.initialized) =>
       tm'.state.currentTheme = CycleNext(tm.config.themes, tm.state.currentTheme)]_vars

\* C10: after init, in every state reached through the theme operations and
\* system-preference changes, the document's data-theme attribute equals
\* getEffectiveTheme().
C10_DataThemeIsEffective == tmInited => doc.dataTheme = getEffectiveTheme(tm)

\* C11: after any sequence of setTheme calls, over built-in themes and custom
\* themes added with addTheme, document.body carries exactly one class of the
\* form theme-*, namely theme-<effective theme>; stated for an initialised manager.
C11_OneThemeClass ==
  tm.state.initialized => doc.bodyClasses = {String(getEffectiveTheme(tm))}

\* C12: on an initialised ThemeManager with working storage, whenever
\* setTheme(t) returns true the value stored under 'codenexlify-theme' equals t.
C12_SetThemeSaves ==
  [][\A t \in ThemeNames :
       ( /\ tm.state.initialized /\ ~env.storageThrows
         /\ setTheme(World, t).ret = "true"
         /\ Done(setTheme(World, t), "setTheme") ) => storage' = t]_vars

\* C29: after destroy() of a component (here the ThemeManager) has completed,
\* none of the handlers and timers that the component installed changes its
\* state or the DOM again.
C29_QuietAfterDestroy ==
  [][(tm.state.destroyed /\ (TimerFires \/ ToggleClick \/ KeyDown \/ SystemPreferenceChange))
       => (tm'.state = tm.state /\ doc' = doc)]_vars

\* ------------------------------------------------------ claims on the tree
\* the next visit: a ThemeManager constructed with default options and initialised
\* on the same document, with st in storage
NextVisit(st) ==
  tmInit([World EXCEPT !.tm = NewThemeManager(DefaultOptions), !.storage = st])

\* C13: for every theme t that setTheme accepts on an initialised ThemeManager
\* (built-in or added with addTheme), a ThemeManager constructed and initialised
\* afterwards starts with currentTheme = t (storage working).
C13_ThemeRoundTrip ==
  [][\A t \in ThemeNames :
       ( /\ tm.state.initialized /\ ~env.storageThrows
         /\ setTheme(World, t).ret = "true"
         /\ Done(setTheme(World, t), "setTheme") )
       => NextVisit(storage').tm.state.currentTheme = t]_vars

\* C14: the values passed to the ThemeManager constructor in options.config
\* (enableTransitions, enableSystemDetection, themes) are the ones its config
\* holds, and init() honours them: no transition style sheet when
\* enableTransitions was passed false, no system-preference detection when
\* enableSystemDetection was passed false.
C14_PassedConfigWins ==
  /\ tm.config.enableTransitions = tm.options.enableTransitions
  /\ tm.config.enableSystemDetection = tm.options.enableSystemDetection
  /\ tm.config.themes = tm.options.themes
  /\ (tmInited /\ ~tm.options.enableTransitions) => doc.transitionSheets = 0
  /\ (tmInited /\ ~tm.options.enableSystemDetection) => ~tm.state.supportsSystemPreference

\* ----------------------------------------------- claims on the I18nManager
\* C15: when the fetch of a language's locale file fails (network error or
\* non-OK response), setLanguage for that language still resolves true, the
\* current language is that language, and t() serves the built-in literal
\* table of that language.
C15_FetchFailureFallsBack ==
  (iev.op = "setLanguage:settled" /\ iev.fetch = "failed")
    => /\ iev.ret = "true"
       /\ i18n.state.currentLanguage = iev.lang
       /\ tKey(i18n) = <<iev.lang, "builtin">>

C15_Witness ==
  /\ iev.op = "setLanguage:settled" /\ iev.fetch = "failed" /\ iev.lang = "en"
  /\ i18n.fetches["en"] > 0
  /\ tKey(i18n) = <<"en", "builtin">>

\* C16: over the lifetime of an I18nManager the locale file of each language is
\* fetched at most once, whether the fetch succeeded or failed, also when the
\* language is requested again while its load is in progress.
C16_FetchedAtMostOnce == \A l \in LangSet : i18n.fetches[l] <= 1

\* C17: when every localStorage access throws, init() of the ThemeManager and
\* init() of the I18nManager still resolve, and the component starts with its
\* fallback default: theme 'auto', language 'tr'.
C17_InitSurvivesStorage ==
  /\ (i18n.env.storageThrows /\ iev.op \in {"init", "init:settled"} /\ iev.ret # Undefined)
       => (iev.ret = "resolved" /\ i18n.state.currentLanguage = "tr")
  /\ (env.storageThrows /\ tmev.op = "init" /\ tmev.setupCalls > 0)
       => tm.state.currentTheme = "auto"

\* C28: when several setLanguage calls overlap, once all of them have settled
\* the current language, the stored language preference (where storage can be
\* written) and document.documentElement.lang all equal the language of the
\* most recently made call.
C28_LastCallWins ==
  (i18n.overlapped /\ i18n.calls = <<>>)
    => /\ i18n.state.currentLanguage = i18n.asked
       /\ i18n.docLang = i18n.asked
       /\ ~i18n.env.storageThrows => i18n.storage = i18n.asked

\* ---------------------------------------------- claims on the application
\* the components whose init() resolved in the current run of init()
Resolved == {capp.attempted[i].name : i \in {j \in 1..Len(capp.attempted) : capp.attempted[j].outcome = "resolved"}}

\* C18: during CodeNexlifyApp.init, when the init() of a registered component
\* rejects, every other registered component is still initialised, the
\* application becomes ready (isReady() true), and 'app:ready' is emitted only
\* after the initialisation of every component has been attempted.
C18_StartupSurvivesRejection ==
  /\ capp.last \in {"finished", "failed"}
       => /\ capp.isInitialized
          /\ Len(capp.attempted) = Len(Registered)
          /\ ~capp.cleaned => Resolved \subseteq capp.components
  /\ capp.ready > 0 => capp.readyAfter = Len(Registered)
  /\ (capp.starts > 0 /\ ~capp.running) => capp.ready > 0

C18_Witness ==
  /\ capp.last = "finished" /\ capp.ready = 1 /\ capp.isInitialized
  /\ capp.attempted[2].outcome = "rejected"
  /\ capp.components = {"theme", "navigation", "pwa", "analytics"}

\* a step changes no entry of localStorage but those under keys
WritesOnly(keys) == \A k \in StorageKeys : LocalStorage'[k] # LocalStorage[k] => k \in keys

C20_MenuStateMatchesDom ==
  nav.state.mobileMenuOpen
    <=> /\ nav.hasHamburger => nav.hamburgerActive
        /\ nav.hasMenu => nav.menuActive
        /\ nav.bodyMenuOpen
        /\ nav.overflowHidden

\* ---------------------------------------- claims on the ComponentRegistry
\* C30: initializeAll returns exactly one result per registered component, and
\* a component whose construction or init() failed is reported with success
\* false while the remaining components are still initialised (stated for the
\* calls during which the components map was left alone).
C30_OneResultEach ==
  (run.done /\ run.changes = 0) =>
    /\ Len(run.results) = Len(registry.components)
    /\ \A i \in 1..Len(run.results) :
         /\ i <= Len(registry.components) => run.results[i].name = registry.components[i].name
         /\ run.results[i].failed => ~run.results[i].success

\* C31: after any sequence of register, unregister and getInstance calls, an
\* instance that getInstance(name) returns is an instance of the class most
\* recently registered under name.
C31_InstanceOfLatestClass ==
  \A name \in RegNames :
    (has(registry, name) /\ getInstanceResult(registry, name) # NoInstance)
      => getInstanceResult(registry, name) = registry.components[RegIndex(registry, name)].cls

\* C32: in every state reached through register, unregister, getInstance,
\* initializeAll, cleanupAll and clear, every name that has an instance is a
\* registered component name.
C32_InstancesAreRegistered ==
  \A name \in RegNames : registry.instances[name] # NoInstance => has(registry, name)

\* an initializeAll call has returned after the components map was changed
\* under it; one component has an instance and another one has none
C32_Witness ==
  /\ run.done
  /\ run.changes > 0
  /\ \E name \in RegNames : registry.instances[name] # NoInstance
  /\ \E name \in RegNames : has(registry, name) /\ registry.instances[name] = NoInstance

\* the names that a component of the graph depends on directly
Successors(graph, name) ==
  IF name \in DOMAIN graph
    THEN {graph[name].dependencies[j] : j \in 1..Len(graph[name].dependencies)}
    ELSE {}

\* S and every name reached from S along dependency edges
RECURSIVE Closure(_, _)
Closure(graph, S) ==
  LET T == S \cup UNION {Successors(graph, n) : n \in S}
  IN IF T = S THEN S ELSE Closure(graph, T)

\* the component lies on a cycle of the dependency graph
OnCycle(graph, name) == name \in Closure(graph, Successors(graph, name))

\* validateDependencies returned a 'circular_dependency' issue for the component
ReportedCircular(name) ==
  \E k \in 1..Len(issues.list) :
    issues.list[k].type = "circular_dependency" /\ issues.list[k].component = name

\* a cycle of the dependency graph is reached from the component, which need
\* not lie on it
ReachesCycle(graph, name) ==
  \E n \in {name} \cup Closure(graph, Successors(graph, name)) : OnCycle(graph, n)

\* C33 (amended): validateDependencies reports a 'circular_dependency' issue
\* for a component exactly when a cycle of the dependency graph is reached
\* from the component along dependency edges; every component that lies on a
\* cycle is therefore reported.
C33_CircularExactlyWhenCycleReached ==
  issues.validated =>
    \A name \in Instantiated(deps) :
      /\ ReportedCircular(name) <=> ReachesCycle(getDependencyGraph(deps), name)
      /\ OnCycle(getDependencyGraph(deps), name) => ReportedCircular(name)

\* validateDependencies has reported two components: one that lies on a cycle
\* and one that only depends on it, while there is nothing missing
C33_Witness ==
  /\ issues.validated
  /\ Len(issues.list) = 2
  /\ \E a, b \in Instantiated(deps) :
       /\ ReportedCircular(a) /\ OnCycle(getDependencyGraph(deps), a)
       /\ ReportedCircular(b) /\ ~OnCycle(getDependencyGraph(deps), b)

\* C33 (as stated): validateDependencies reports a 'circular_dependency' issue
\* for a component exactly when the component lies on a cycle of the
\* dependency graph.
C33_CircularExactlyOnCycle ==
  issues.validated =>
    \A name \in Instantiated(deps) :
      ReportedCircular(name) <=> OnCycle(getDependencyGraph(deps), name)

\* ------------------------------------------------- claims on the EventBus
\* how often a call has invoked the listener id
Times(f, id) == Cardinality({k \in 1..Len(f.called) : f.called[k] = id})

\* an emit call has left its loop and is about to return
AtEnd(f) == f.kind = "emit" /\ f.idx >= Len(bus.events[f.event])

Returning == bus.stack # <<>> /\ AtEnd(Top(bus.stack))

\* C21: a listener registered with once() is invoked at most once over any
\* sequence of emit and emitAsync calls for its event, including emissions made
\* from inside listeners and invocations in which the listener throws.
C21_OnceAtMostOnce == \A id \in 1..MaxIds : bus.invoked[id] <= 1

\* C22: emit(event) invokes exactly once every listener that is registered for
\* the event when emit is called and is still registered when its turn comes,
\* also when listeners call on() or off() for the event during the emit: when
\* the call returns, no such listener was invoked twice, and each one that never
\* left the array was invoked.
C22_EachListenerOnce ==
  Returning =>
    LET f == Top(bus.stack) IN
    \A id \in f.atStart :
      /\ Times(f, id) <= 1
      /\ id \notin f.removed => Times(f, id) = 1

\* C23: if a listener throws during emit, the remaining listeners of the event
\* are still invoked, emit returns false without throwing, and one 'error'
\* event is emitted per throwing listener; a throwing listener of 'error'
\* itself causes no 'error' emission. Here: a call made for 'error' emits no
\* 'error', every other call has emitted one per throw; a returning call has
\* run to the end of the array and returns false exactly when a listener threw,
\* and it has invoked every listener once when the array was not changed by
\* on() or off() meanwhile.
C23_ThrowIsContained ==
  /\ \A k \in 1..Len(bus.stack) :
       LET f == bus.stack[k] IN
       /\ f.event = "error" => f.errorEmits = 0
       /\ f.event # "error" => f.errorEmits = f.throws
  /\ Returning =>
       LET f == Top(bus.stack) IN
       /\ f.hasError <=> f.throws > 0
       /\ f.idx >= Len(bus.events[f.event])
       /\ (f.removed = {} /\ Ids(bus.events[f.event]) = f.atStart)
            => \A id \in f.atStart : Times(f, id) = 1

\* two listeners of 'e', the first of which throws: the emit of 'e' is about
\* to return false, having invoked both and emitted one 'error'
C23_Witness ==
  /\ Len(bus.stack) = 1
  /\ Returning
  /\ LET f == Top(bus.stack) IN
     /\ f.event = "e" /\ f.hasError /\ f.throws = 1 /\ f.errorEmits = 1
     /\ Len(f.called) = 2
     /\ bus.events["e"][1].act = "throw"
     /\ f.called = <<bus.events["e"][1].id, bus.events["e"][2].id>>

\* C24: once a middleware installed with use() has returned false for an event
\* name, no listener of that event is invoked by a later emission of it, through
\* emit, emitAsync or the emitters of namespace().
C24_BlockedStaysBlocked ==
  \A k \in 1..Len(bus.stack) : bus.stack[k].afterBlock => bus.stack[k].called = <<>>

\* the listeners of all events
AllIds(b) == UNION {Ids(b.events[n]) : n \in BusNames}

OwnedBy(b, c) ==
  UNION {{b.events[n][i].id : i \in {j \in 1..Len(b.events[n]) : b.events[n][j].owner = c}} :
           n \in BusNames}

\* C25: destroy() of a component removes from the EventBus exactly the
\* listeners that this component registered through its own on(): all of
\* them, and no listener of another component or registered on the EventBus.
C25_DestroyRemovesOwn ==
  [][bev'.op = "destroy" => AllIds(bus') = AllIds(bus) \ OwnedBy(bus, bev'.comp)]_vars

\* C8: destroy() of a parent always completes, and when it has completed every
\* component that was in its children map has been destroyed and the map is empty.
C8_DestroyCompletes ==
  (tev.op = "destroy") ~>
     ( /\ tev.op = "destroyed"
       /\ children[tev.root] = <<>>
       /\ \A k \in 1..Len(tev.kids) : destroyed[tev.kids[k]] )

InitTree == IdleTree /\ IdleBC /\ IdleTheme /\ IdleI18n /\ IdleApp /\ IdleNav /\ IdleBus /\ IdleRegistry /\ IdleDeps

NextTree ==
  \/ AddChild
  \/ TreeDestroyCall
  \/ TreeDestroyStep

SpecTree == InitTree /\ [][NextTree]_vars

\* the microtask queue keeps running the destroy() in progress
FairSpecTree == SpecTree /\ WF_vars(TreeDestroyStep)


====
